---- MODULE Spec2Model ----
(***************************************************************************)
(* TopNotchNotes harness: the audio acquisition and telemetry pipeline.    *)
(*                                                                         *)
(*   SpecRing    RingBuffer<T, Capacity>, one caller (push / pop)          *)
(*   SpecSPSC    RingBuffer with one producer and one consumer thread,     *)
(*               interleaved at each atomic load / store and slot access   *)
(***************************************************************************)
EXTENDS Integers, Sequences, FiniteSets, TLC

VARIABLES
    buffer_,        \* RingBuffer::buffer_       : [0..Capacity-1 -> value]
    write_index_,   \* RingBuffer::write_index_  (atomic)
    read_index_,    \* RingBuffer::read_index_   (atomic)
    prod,           \* locals of the push in progress on the producer thread
    cons,           \* locals of the pop in progress on the consumer thread
    pushed,         \* history: values of the successful pushes, in order
    popped,         \* history: values returned by the successful pops, in order
    last,           \* history: the last completed call and its result
    active_,        \* AudioDevice::active_      (atomic)
    data_ready_,    \* AudioDevice::data_ready_  (atomic)
    mutex_,         \* AudioDevice::mutex_: the thread holding it, or "none"
    hw_started,     \* the capture device runs (ma_device_start .. ma_device_stop)
    frame_buffer_,  \* AudioDevice::frame_buffer_
    cb,             \* hardware callback thread: on_audio_data in progress
    wd,             \* consumer thread: start(), then the frame stream's wait_for_data
    st,             \* a thread calling stop()
    delivered,      \* history: concatenation of the frames wait_for_data returned
    ret,            \* history: what the last wait_for_data returned
    g_state,        \* std::atomic<RecordingState> g_state
    g_should_exit,  \* std::atomic<bool> g_should_exit
    g_session,      \* std::optional<Session> g_session
    g_session_mutex,\* std::mutex g_session_mutex: the thread holding it, or "none"
    out,            \* the telemetry stream: the events written to stdout, in order
    now,            \* the clock, in whole seconds
    pc,             \* where the command thread and the main thread are
    stopv,          \* stop_recording, per calling thread: return address, duration
    cmd,            \* command thread: locals of command_listener and the handler
    mainv,          \* main thread: locals of run_audio_loop / process_audio_frame
    cmd_emitted,    \* history: the events the command being handled has emitted
    endlog,         \* history: one entry per session-end event
    \* telemetry::Emitter, seen byte by byte
    emitter,
    \* one call of json_escape and the line printed with its result
    esc,
    \* io::AsyncWriter with its writer thread, a producer and an owner
    aw,
    \* io::WavWriter: the object and its file on disk
    wav,
    \* two WavWriter objects and the files they open, for the move operations
    mv,
    \* session.Manager of the controller program: its sessions map and the clock
    mgr,
    \* ipc.Controller of the controller program: the fields processEvent maintains
    ctl

ringVars == <<buffer_, write_index_, read_index_, prod, cons, pushed, popped, last>>

devVars == <<active_, data_ready_, mutex_, hw_started, frame_buffer_, cb, wd, st,
             delivered, ret>>

appVars == <<g_state, g_should_exit, g_session, g_session_mutex, out, now, pc, stopv,
             cmd, mainv, cmd_emitted, endlog>>

\* the components modelled on their own: Emitter
auxVars == <<emitter, esc, aw, wav, mv, mgr, ctl>>

\* everything the ring buffer's own operations leave alone
nonRingVars == <<devVars, appVars, auxVars>>

\* everything the device's operations leave alone
nonDevVars == <<appVars, auxVars>>

vars == <<ringVars, devVars, appVars, auxVars>>

----------------------------------------------------------------------------
(* Bounds of the model *)

\* accepted pushes explored by SpecRing
MaxPush == 6
\* push calls explored by SpecSPSC
MaxCalls == 7
\* distinct sample values offered to SpecRing
NumValues == 2

\* samples the hardware offers in SpecDevice
MaxSamples == 6
\* frames one hardware callback delivers, at most
MaxBatch == 2
\* DeviceConfig::buffer_frames, scaled down with the ring (1024 of 16384)
buffer_frames == 2

\* Emitter calls per thread in SpecEmitter
MaxEmits == 2
\* bytes of one telemetry line, the newline included
LineBytes == 3

\* bytes of a string given to json_escape, at most
MaxStr == 2

\* frames the frame stream yields in SpecCadence
CadenceFrames == 12

\* AsyncWriter::max_queue_size, scaled down from 100
max_queue_size == 2
\* write_bytes calls of the producer in SpecAsync
MaxWrites == 4
\* close() calls of the owner in SpecAsync, the destructor's included
MaxCloses == 3

\* write calls on the WavWriter in SpecWav
MaxWavWrites == 4
\* samples of one write call, at most
MaxWriteLen == 4

\* operations on the two WavWriter objects in SpecMove
MaxMoveOps == 5
\* samples of one write call in SpecMove, at most
MaxMoveWriteLen == 2

\* CreateSession calls in SpecManager
MaxSessions == 4
\* seconds the clock of SpecManager advances
MaxClock == 2

\* events given to processEvent in SpecController
MaxEvents == 3

\* elements of a span given to the batch push or pop in SpecBatch, at most
MaxSpan == 4

\* command lines the controller sends in SpecHarness
MaxCmds == 3
\* frames the frame stream yields in SpecHarness before exit is requested
MaxFrames == 2
\* seconds the clock advances
MaxTime == 1

\* RingBuffer<int, 4>, the instantiation of test_full_buffer / test_wraparound;
\* the device's AudioRingBuffer is modelled at the same capacity
Capacity == 4
\* DeviceConfig::channels
channels == 1

Values == 1..NumValues

----------------------------------------------------------------------------
(* RingBuffer: index arithmetic *)

mask == Capacity - 1

\* (i + 1) & mask, for a power-of-two Capacity
next_index(i) == (i + 1) % (mask + 1)

\* push: next_write == read_index_  -> buffer full
push_full_keeps_no_slot(next_write, read) == FALSE
push_full(next_write, read) == next_write = read

\* pop: read == write_index_ -> buffer empty
pop_empty_never(read, write) == FALSE
pop_empty(read, write) == read = write

\* buffer_[write] = value
slot_store_next(buf, write, value) == [buf EXCEPT ![next_index(write)] = value]
slot_store(buf, write, value) == [buf EXCEPT ![write] = value]

\* T value = buffer_[read]
slot_load(buf, read) == buf[read]

\* size(): (write - read + Capacity) & mask
size_without_wrap == write_index_ - read_index_
size == (write_index_ - read_index_ + Capacity) % (mask + 1)

NoCall == [op |-> "none", ok |-> FALSE, held |-> 0]

\* number of elements held, counted from the histories (not from the indices)
Held == Len(pushed) - Len(popped)

IdleProd == [pc |-> "idle", value |-> 0, write |-> 0, next_write |-> 0, ok |-> FALSE, calls |-> 0]
IdleCons == [pc |-> "idle", value |-> 0, read |-> 0, ok |-> FALSE]

InitRing ==
    /\ buffer_ = [i \in 0..(Capacity - 1) |-> 0]
    /\ write_index_ = 0
    /\ read_index_ = 0
    /\ prod = IdleProd
    /\ cons = IdleCons
    /\ pushed = <<>>
    /\ popped = <<>>
    /\ last = NoCall

\* AudioDevice: config_.buffer_frames * config_.channels
expected_samples == buffer_frames * channels

Min(a, b) == IF a < b THEN a ELSE b

\* std::min(available, expected_samples)
to_read_whole_period(available) == expected_samples
to_read_of(available) == Min(available, expected_samples)

IdleCb == [pc |-> "idle", n |-> 0, i |-> 0, base |-> 0]
NewWd == [pc |-> "created", available |-> 0, to_read |-> 0, popped |-> 0]
NoRet == [kind |-> "none", len |-> 0]

\* AudioDevice after create(): constructed, not started
InitDev ==
    /\ active_ = FALSE
    /\ data_ready_ = FALSE
    /\ mutex_ = "none"
    /\ hw_started = FALSE
    /\ frame_buffer_ = [i \in 0..(expected_samples - 1) |-> 0]
    /\ cb = IdleCb
    /\ wd = NewWd
    /\ st = [pc |-> "idle"]
    /\ delivered = <<>>
    /\ ret = NoRet

----------------------------------------------------------------------------
(* Harness: types, telemetry events, the command protocol *)

Threads == {"cmd", "main"}

\* struct Session; present = FALSE is std::nullopt
NoSession ==
    [present |-> FALSE, id |-> 0, start_time |-> 0, writer_open |-> FALSE,
     samples_written |-> 0, transcript_open |-> FALSE, frame_count |-> 0,
     all_full |-> TRUE]

\* to_string(RecordingState)
to_string_idle(state) == "idle"
to_string(state) ==
    CASE state = "Idle" -> "idle"
      [] state = "Recording" -> "recording"
      [] state = "Paused" -> "paused"
      [] state = "Error" -> "error"

\* telemetry::Emitter: one record per line written
Event(evt, action, body, id, bytes, duration) ==
    [evt |-> evt, action |-> action, body |-> body, id |-> id, bytes |-> bytes,
     duration |-> duration]
EvStatus(state) == Event("status", "", state, 0, 0, 0)
EvText(body) == Event("txt", "", body, 0, 0, 0)
EvLevel == Event("level", "", "db", 0, 0, 0)
EvError(body) == Event("err", "", body, 0, 0, 0)
EvInfo(body) == Event("info", "", body, 0, 0, 0)
EvSessionStart(id) == Event("session", "start", "", id, 0, 0)
EvSessionEnd(id, bytes, duration) == Event("session", "end", "", id, bytes, duration)

\* Emitter::emit and its siblings: lock, print one line, flush
Emit(t, ev) ==
    /\ out' = Append(out, ev)
    /\ cmd_emitted' = IF t = "cmd" THEN Append(cmd_emitted, ev) ELSE cmd_emitted

\* the words a command line can start with; "" is a blank line
Words ==
    {"START", "STOP", "PAUSE", "RESUME", "STATUS", "KILL", "start", "Start", "STAR",
     "STARTS", "INVALID", ""}

\* parse_command(std::string_view cmd)
parse_command_nocase(word) ==
    CASE word \in {"START", "start", "Start"} -> "Start"
      [] word = "STOP" -> "Stop"
      [] word = "PAUSE" -> "Pause"
      [] word = "RESUME" -> "Resume"
      [] word = "KILL" -> "Kill"
      [] word = "STATUS" -> "Status"
      [] OTHER -> "Unknown"
parse_command(word) ==
    CASE word = "START" -> "Start"
      [] word = "STOP" -> "Stop"
      [] word = "PAUSE" -> "Pause"
      [] word = "RESUME" -> "Resume"
      [] word = "KILL" -> "Kill"
      [] word = "STATUS" -> "Status"
      [] OTHER -> "Unknown"

\* sizeof(float)
sizeof_float == 4

\* process_audio_frame: frame_count % 5 == 0
LevelInterval == 5

\* static_assert(sizeof(WavHeader) == 44)
sizeof_WavHeader == 44

\* WavHeader::finalize: file_size = 36 + data_size
riff_overhead == 36

\* the number of values of the header's std::uint32_t fields, scaled down from 2^32
\* to the smallest power of two above sizeof(WavHeader)
uint32_values == 64

\* lengths of the frames the stream yields: a full period, or a partial one
FrameLens == {1, expected_samples}

NoPre == [state |-> "Idle", session |-> NoSession]

InitApp ==
    /\ g_state = "Idle"
    /\ g_should_exit = FALSE
    /\ g_session = NoSession
    /\ g_session_mutex = "none"
    /\ out = <<>>
    /\ now = 0
    /\ pc = [t \in Threads |-> IF t = "main" THEN "boot_ready" ELSE "unstarted"]
    /\ stopv = [t \in Threads |-> [ret_to |-> "done", duration |-> 0]]
    /\ cmd = [cur |-> "None", n |-> 0, pre |-> NoPre, session |-> NoSession,
              writer_result |-> "none",
              state_read |-> "Idle"]
    /\ mainv = [frame_len |-> 0, frames |-> 0]
    /\ cmd_emitted = <<>>
    /\ endlog = <<>>

\* telemetry::Emitter: mutex_ free, nothing printed, no call in progress
InitEmitter ==
    emitter = [mutex_ |-> "none", stream |-> <<>>,
               th |-> [t \in Threads |->
                          [pc |-> "idle", method |-> "none", pos |-> 0, calls |-> 0]]]

\* no call of json_escape in progress
InitEscape ==
    esc = [pc |-> "idle", input |-> <<>>, i |-> 1, result |-> <<>>, method |-> "none",
           line |-> <<>>]

\* AsyncWriter after its constructor: file open, is_open_ set, writer thread started
InitAsync ==
    aw = [is_open_ |-> TRUE, should_stop_ |-> FALSE, mutex_ |-> "none",
          write_queue_ |-> <<>>, file_open |-> TRUE, bytes_written_ |-> 0,
          file_closes |-> 0, accepted |-> <<>>, file |-> <<>>,
          prod |-> [pc |-> "idle", calls |-> 0, closed_at_call |-> FALSE,
                    size_at_check |-> 0, result |-> "none"],
          owner |-> [pc |-> "idle", calls |-> 0, was_open |-> FALSE],
          thread |-> [pc |-> "loop", data |-> 0]]

\* WavHeader's member initialisers: file_size = 0, data_size = 0
NewWavHeader == [file_size |-> 0, data_size |-> 0]

\* WavWriter after its constructor: file open, placeholder header written
InitWav ==
    wav = [file_open |-> TRUE, header_ |-> NewWavHeader, samples_written_ |-> 0,
           disk_header |-> NewWavHeader, file_length |-> sizeof_WavHeader,
           header_rewrites |-> 0, writes |-> 0, closes |-> 0, destroyed |-> FALSE,
           total |-> 0]

\* the WavWriter objects of SpecMove and the files they can open
Writers == {"a", "b"}
Files == {1, 2}

\* writer a constructed on file 1 (placeholder header written), writer b not yet
\* constructed; file 0 stands for a file_ that is not open
InitMove ==
    mv = [obj |-> [w \in Writers |->
                     [life |-> IF w = "a" THEN "alive" ELSE "unborn",
                      file_ |-> IF w = "a" THEN 1 ELSE 0,
                      samples_written_ |-> 0]],
          file |-> [f \in Files |->
                     [created |-> f = 1, header_rewrites |-> 0, total |-> 0,
                      final_samples |-> 0]],
          ops |-> 0,
          op |-> [kind |-> "none", dst |-> "a", src |-> "a"]]

\* NewManager on an empty data directory: no sessions; created is the history of the
\* CreateSession calls that returned a session
InitManager ==
    mgr = [sessions |-> <<>>, created |-> <<>>, calls |-> 0, clock |-> 0]

\* NewController: state "idle", the other fields zero; events is the history of the
\* events given to processEvent
InitController ==
    ctl = [state |-> "idle", recording |-> FALSE, sessionID |-> "", lastLevel |-> 0,
           events |-> <<>>]

InitAux ==
    /\ InitEmitter /\ InitEscape /\ InitAsync /\ InitWav /\ InitMove
    /\ InitManager /\ InitController

Init == InitRing /\ InitDev /\ InitApp /\ InitAux

----------------------------------------------------------------------------
(* RingBuffer, one caller: each call runs to completion *)

\* bool push(const T &value)
Push(value) ==
    /\ Len(pushed) < MaxPush
    /\ LET write == write_index_
           next_write == next_index(write)
       IN IF push_full(next_write, read_index_)
          THEN /\ last' = [op |-> "push", ok |-> FALSE, held |-> Held]
               /\ UNCHANGED <<buffer_, write_index_, pushed>>
          ELSE /\ buffer_' = slot_store(buffer_, write, value)
               /\ write_index_' = next_write
               /\ pushed' = Append(pushed, value)
               /\ last' = [op |-> "push", ok |-> TRUE, held |-> Held]
    /\ UNCHANGED <<read_index_, prod, cons, popped, nonRingVars>>

\* std::optional<T> pop()
Pop ==
    /\ LET read == read_index_
       IN IF pop_empty(read, write_index_)
          THEN /\ last' = [op |-> "pop", ok |-> FALSE, held |-> Held]
               /\ UNCHANGED <<read_index_, popped>>
          ELSE /\ popped' = Append(popped, slot_load(buffer_, read))
               /\ read_index_' = next_index(read)
               /\ last' = [op |-> "pop", ok |-> TRUE, held |-> Held]
    /\ UNCHANGED <<buffer_, write_index_, prod, cons, pushed, nonRingVars>>

NextRing ==
    \/ \E value \in Values : Push(value)
    \/ Pop

SpecRing == Init /\ [][NextRing]_vars

----------------------------------------------------------------------------
(* RingBuffer, producer thread: push, one step per memory access *)

\* the producer calls push(value); the k-th call offers the value k
P_Call ==
    /\ prod.pc = "idle"
    /\ prod.calls < MaxCalls
    /\ prod' = [prod EXCEPT !.pc = "load_write", !.value = prod.calls + 1,
                            !.calls = prod.calls + 1]
    /\ UNCHANGED <<buffer_, write_index_, read_index_, cons, pushed, popped, last, nonRingVars>>

\* const auto write = write_index_.load(relaxed); next_write = (write + 1) & mask
P_LoadWrite ==
    /\ prod.pc = "load_write"
    /\ prod' = [prod EXCEPT !.pc = "load_read", !.write = write_index_,
                            !.next_write = next_index(write_index_)]
    /\ UNCHANGED <<buffer_, write_index_, read_index_, cons, pushed, popped, last, nonRingVars>>

\* if (next_write == read_index_.load(acquire)) return false
P_LoadRead ==
    /\ prod.pc = "load_read"
    /\ IF push_full(prod.next_write, read_index_)
       THEN prod' = [prod EXCEPT !.pc = "ret", !.ok = FALSE]
       ELSE prod' = [prod EXCEPT !.pc = "store_slot"]
    /\ UNCHANGED <<buffer_, write_index_, read_index_, cons, pushed, popped, last, nonRingVars>>

\* buffer_[write] = value
P_StoreSlot ==
    /\ prod.pc = "store_slot"
    /\ buffer_' = slot_store(buffer_, prod.write, prod.value)
    /\ prod' = [prod EXCEPT !.pc = "store_index"]
    /\ UNCHANGED <<write_index_, read_index_, cons, pushed, popped, last, nonRingVars>>

\* write_index_.store(next_write, release); return true
P_StoreIndex ==
    /\ prod.pc = "store_index"
    /\ write_index_' = prod.next_write
    /\ pushed' = Append(pushed, prod.value)
    /\ prod' = [prod EXCEPT !.pc = "ret", !.ok = TRUE]
    /\ UNCHANGED <<buffer_, read_index_, cons, popped, last, nonRingVars>>

\* the push returns to the producer's caller
P_Ret ==
    /\ prod.pc = "ret"
    /\ prod' = [prod EXCEPT !.pc = "idle"]
    /\ last' = [op |-> "push", ok |-> prod.ok, held |-> Held]
    /\ UNCHANGED <<buffer_, write_index_, read_index_, cons, pushed, popped, nonRingVars>>

----------------------------------------------------------------------------
(* RingBuffer, consumer thread: pop, one step per memory access *)

\* the consumer calls pop()
C_Call ==
    /\ cons.pc = "idle"
    /\ cons' = [cons EXCEPT !.pc = "load_read"]
    /\ UNCHANGED <<buffer_, write_index_, read_index_, prod, pushed, popped, last, nonRingVars>>

\* const auto read = read_index_.load(relaxed)
C_LoadRead ==
    /\ cons.pc = "load_read"
    /\ cons' = [cons EXCEPT !.pc = "load_write", !.read = read_index_]
    /\ UNCHANGED <<buffer_, write_index_, read_index_, prod, pushed, popped, last, nonRingVars>>

\* if (read == write_index_.load(acquire)) return nullopt
C_LoadWrite ==
    /\ cons.pc = "load_write"
    /\ IF pop_empty(cons.read, write_index_)
       THEN cons' = [cons EXCEPT !.pc = "ret", !.ok = FALSE]
       ELSE cons' = [cons EXCEPT !.pc = "load_slot"]
    /\ UNCHANGED <<buffer_, write_index_, read_index_, prod, pushed, popped, last, nonRingVars>>

\* T value = buffer_[read]
C_LoadSlot ==
    /\ cons.pc = "load_slot"
    /\ cons' = [cons EXCEPT !.pc = "store_index", !.value = slot_load(buffer_, cons.read)]
    /\ UNCHANGED <<buffer_, write_index_, read_index_, prod, pushed, popped, last, nonRingVars>>

\* read_index_.store((read + 1) & mask, release); return value
C_StoreIndex ==
    /\ cons.pc = "store_index"
    /\ read_index_' = next_index(cons.read)
    /\ popped' = Append(popped, cons.value)
    /\ cons' = [cons EXCEPT !.pc = "ret", !.ok = TRUE]
    /\ UNCHANGED <<buffer_, write_index_, prod, pushed, last, nonRingVars>>

\* the pop returns to the consumer's caller
C_Ret ==
    /\ cons.pc = "ret"
    /\ cons' = [cons EXCEPT !.pc = "idle"]
    /\ last' = [op |-> "pop", ok |-> cons.ok, held |-> Held]
    /\ UNCHANGED <<buffer_, write_index_, read_index_, prod, pushed, popped, nonRingVars>>

NextSPSC ==
    \/ P_Call \/ P_LoadWrite \/ P_LoadRead \/ P_StoreSlot \/ P_StoreIndex \/ P_Ret
    \/ C_Call \/ C_LoadRead \/ C_LoadWrite \/ C_LoadSlot \/ C_StoreIndex \/ C_Ret

SpecSPSC == Init /\ [][NextSPSC]_vars

----------------------------------------------------------------------------
(* Claims on the ring buffer *)

IsPrefix(s, t) == Len(s) <= Len(t) /\ \A k \in 1..Len(s) : s[k] = t[k]

\* C1: over every sequence of push and pop calls on a buffer of capacity C the
\* successful pops never outnumber the successful pushes, a push fails exactly
\* when the buffer holds C-1 elements and a pop fails exactly when it holds 0.
C1_PushPopCounts ==
    /\ Len(popped) <= Len(pushed)
    /\ last.op = "push" => (~last.ok <=> last.held = Capacity - 1)
    /\ last.op = "pop" => (~last.ok <=> last.held = 0)

\* C1 witness: a push is refused on a full buffer after elements were popped
C1_Witness == last.op = "push" /\ ~last.ok /\ Len(popped) > 0

\* C2: the buffer is FIFO: the k-th successful pop returns the value of the k-th
\* successful push, also after the indices have wrapped around the array.
C2_Fifo == IsPrefix(popped, pushed)

\* C2 witness: more values than the array has slots were popped (indices wrapped)
C2_Witness == Len(popped) > Capacity /\ last.op = "pop" /\ last.ok

\* C3: with one producer and one consumer interleaved at every index load/store
\* and slot access, the two threads never access the same slot at the same time
\* and every popped value is the corresponding pushed value, in FIFO order.
C3_SpscHandoff ==
    /\ ~(prod.pc = "store_slot" /\ cons.pc = "load_slot" /\ prod.write = cons.read)
    /\ IsPrefix(popped, pushed)
    /\ cons.pc = "store_index" =>
          /\ Len(popped) < Len(pushed)
          /\ cons.value = pushed[Len(popped) + 1]

\* C3 witness: a pop has read its value while a push is about to write a slot,
\* after the indices wrapped
C3_Witness ==
    /\ cons.pc = "store_index" /\ prod.pc = "store_slot"
    /\ Len(popped) >= Capacity

----------------------------------------------------------------------------
(* AudioDevice, hardware thread: audio_data_callback -> on_audio_data *)

\* on_audio_data takes no lock: its steps can be taken whoever holds mutex_
callback_waits_for_mutex(holder) == holder = "none"
callback_can_run(holder) == TRUE

\* the platform invokes the callback with frame_count frames while the device runs;
\* the samples of the stream are numbered 1, 2, 3, ... in the order offered
CB_Invoke(frame_count) ==
    /\ cb.pc = "idle"
    /\ hw_started
    /\ cb.base + frame_count * channels <= MaxSamples
    /\ cb' = [cb EXCEPT !.pc = "push", !.n = frame_count * channels, !.i = 0]
    /\ UNCHANGED <<ringVars, nonDevVars, active_, data_ready_, mutex_, hw_started, frame_buffer_,
                   wd, st, delivered, ret>>

\* ring_buffer_.push(span): for (value : data) if (!push(value)) ...
CB_PushCall ==
    /\ cb.pc = "push"
    /\ prod.pc = "idle"
    /\ prod' = [prod EXCEPT !.pc = "load_write", !.value = cb.base + cb.i + 1,
                            !.calls = prod.calls + 1]
    /\ UNCHANGED <<buffer_, write_index_, read_index_, cons, pushed, popped, last, nonRingVars>>

\* ... break; ++pushed
CB_PushRet ==
    /\ cb.pc = "push"
    /\ prod.pc = "ret"
    /\ prod' = [prod EXCEPT !.pc = "idle"]
    /\ IF prod.ok /\ cb.i + 1 < cb.n
       THEN cb' = [cb EXCEPT !.i = cb.i + 1]
       ELSE cb' = [cb EXCEPT !.pc = "set_ready"]
    /\ UNCHANGED <<buffer_, write_index_, read_index_, cons, pushed, popped, last>>
    /\ UNCHANGED <<active_, data_ready_, mutex_, hw_started, frame_buffer_, wd, st,
                   delivered, ret, nonDevVars>>

\* data_ready_.store(true, release)
CB_SetReady ==
    /\ cb.pc = "set_ready"
    /\ callback_can_run(mutex_)
    /\ data_ready_' = TRUE
    /\ cb' = [cb EXCEPT !.pc = "notify"]
    /\ UNCHANGED <<ringVars, nonDevVars, active_, mutex_, hw_started, frame_buffer_, wd, st,
                   delivered, ret>>

\* cv_.notify_one(): wakes the consumer if it sleeps on cv_, else has no effect
CB_Notify ==
    /\ cb.pc = "notify"
    /\ cb' = [cb EXCEPT !.pc = "idle", !.base = cb.base + cb.n]
    /\ wd' = IF wd.pc = "waiting" THEN [wd EXCEPT !.pc = "wake"] ELSE wd
    /\ UNCHANGED <<ringVars, nonDevVars, active_, data_ready_, mutex_, hw_started, frame_buffer_,
                   st, delivered, ret>>

----------------------------------------------------------------------------
(* AudioDevice, consumer thread: start(), then create_audio_stream's loop *)

\* create_audio_stream: after co_yield *result, and after the error was printed, the
\* while loop goes on to its next test of is_active()
stream_ends_on_error(result_ok) == IF result_ok THEN "loop" ELSE "done"
stream_next(result_ok) == "loop"

\* start(): ma_device_start(&handle_->device)
WD_StartHw ==
    /\ wd.pc = "created"
    /\ hw_started' = TRUE
    /\ wd' = [wd EXCEPT !.pc = "start_active"]
    /\ UNCHANGED <<ringVars, nonDevVars, active_, data_ready_, mutex_, frame_buffer_, cb, st,
                   delivered, ret>>

\* start(): active_ = true
WD_StartActive ==
    /\ wd.pc = "start_active"
    /\ active_' = TRUE
    /\ wd' = [wd EXCEPT !.pc = "loop"]
    /\ UNCHANGED <<ringVars, nonDevVars, data_ready_, mutex_, hw_started, frame_buffer_, cb, st,
                   delivered, ret>>

\* create_audio_stream: while (device.is_active()) { auto result = device.wait_for_data(); ...
WD_Loop ==
    /\ wd.pc = "loop"
    /\ wd' = [wd EXCEPT !.pc = IF active_ THEN "lock" ELSE "done"]
    /\ UNCHANGED <<ringVars, nonDevVars, active_, data_ready_, mutex_, hw_started, frame_buffer_,
                   cb, st, delivered, ret>>

\* wait_for_data: std::unique_lock lock(mutex_)
WD_Lock ==
    /\ wd.pc = "lock"
    /\ mutex_ = "none"
    /\ mutex_' = "consumer"
    /\ wd' = [wd EXCEPT !.pc = "check_ready"]
    /\ UNCHANGED <<ringVars, nonDevVars, active_, data_ready_, hw_started, frame_buffer_, cb, st,
                   delivered, ret>>

\* cv_.wait predicate: data_ready_.load(acquire) || ...
WD_CheckReady ==
    /\ wd.pc = "check_ready"
    /\ wd' = [wd EXCEPT !.pc = IF data_ready_ THEN "after_wait" ELSE "check_active"]
    /\ UNCHANGED <<ringVars, nonDevVars, active_, data_ready_, mutex_, hw_started, frame_buffer_,
                   cb, st, delivered, ret>>

\* cv_.wait predicate: ... || !active_
WD_CheckActive ==
    /\ wd.pc = "check_active"
    /\ wd' = [wd EXCEPT !.pc = IF ~active_ THEN "after_wait" ELSE "block"]
    /\ UNCHANGED <<ringVars, nonDevVars, active_, data_ready_, mutex_, hw_started, frame_buffer_,
                   cb, st, delivered, ret>>

\* cv_.wait: the predicate was false: release mutex_ and sleep on cv_ (one atomic step)
WD_Block ==
    /\ wd.pc = "block"
    /\ mutex_' = "none"
    /\ wd' = [wd EXCEPT !.pc = "waiting"]
    /\ UNCHANGED <<ringVars, nonDevVars, active_, data_ready_, hw_started, frame_buffer_, cb, st,
                   delivered, ret>>

\* cv_.wait: a condition variable may wake without a notify
WD_SpuriousWake ==
    /\ wd.pc = "waiting"
    /\ wd' = [wd EXCEPT !.pc = "wake"]
    /\ UNCHANGED <<ringVars, nonDevVars, active_, data_ready_, mutex_, hw_started, frame_buffer_,
                   cb, st, delivered, ret>>

\* cv_.wait: woken: take mutex_ again and evaluate the predicate again
WD_Wake ==
    /\ wd.pc = "wake"
    /\ mutex_ = "none"
    /\ mutex_' = "consumer"
    /\ wd' = [wd EXCEPT !.pc = "check_ready"]
    /\ UNCHANGED <<ringVars, nonDevVars, active_, data_ready_, hw_started, frame_buffer_, cb, st,
                   delivered, ret>>

\* if (!active_) return std::unexpected("Device stopped");
\* the stream prints the error and loops
WD_AfterWait ==
    /\ wd.pc = "after_wait"
    /\ IF ~active_
       THEN /\ mutex_' = "none"
            /\ ret' = [kind |-> "stopped", len |-> 0]
            /\ wd' = [wd EXCEPT !.pc = stream_next(FALSE)]
       ELSE /\ wd' = [wd EXCEPT !.pc = "size"]
            /\ UNCHANGED <<mutex_, ret>>
    /\ UNCHANGED <<ringVars, nonDevVars, active_, data_ready_, hw_started, frame_buffer_, cb, st,
                   delivered>>

\* available = ring_buffer_.size(); to_read = std::min(available, expected_samples);
\* if (to_read > 0) ...
WD_Size ==
    /\ wd.pc = "size"
    /\ wd' = [wd EXCEPT !.available = size, !.to_read = to_read_of(size), !.popped = 0,
                        !.pc = IF to_read_of(size) > 0 THEN "pop" ELSE "size2"]
    /\ UNCHANGED <<ringVars, nonDevVars, active_, data_ready_, mutex_, hw_started, frame_buffer_,
                   cb, st, delivered, ret>>

\* ring_buffer_.pop(span(frame_buffer_.data(), to_read)): for (slot : out) pop() ...
WD_PopCall ==
    /\ wd.pc = "pop"
    /\ cons.pc = "idle"
    /\ cons' = [cons EXCEPT !.pc = "load_read"]
    /\ UNCHANGED <<buffer_, write_index_, read_index_, prod, pushed, popped, last, nonRingVars>>

\* ... slot = *value; ++popped;  or  break
WD_PopRet ==
    /\ wd.pc = "pop"
    /\ cons.pc = "ret"
    /\ cons' = [cons EXCEPT !.pc = "idle"]
    /\ IF cons.ok
       THEN /\ frame_buffer_' = [frame_buffer_ EXCEPT ![wd.popped] = cons.value]
            /\ wd' = [wd EXCEPT !.popped = wd.popped + 1,
                                !.pc = IF wd.popped + 1 < wd.to_read THEN "pop" ELSE "size2"]
       ELSE /\ wd' = [wd EXCEPT !.pc = "size2"]
            /\ UNCHANGED frame_buffer_
    /\ UNCHANGED <<buffer_, write_index_, read_index_, prod, pushed, popped, last>>
    /\ UNCHANGED <<active_, data_ready_, mutex_, hw_started, cb, st, delivered, ret,
                   nonDevVars>>

\* if (ring_buffer_.size() < expected_samples) ...
WD_Size2 ==
    /\ wd.pc = "size2"
    /\ wd' = [wd EXCEPT !.pc = IF size < expected_samples THEN "clear" ELSE "ret"]
    /\ UNCHANGED <<ringVars, nonDevVars, active_, data_ready_, mutex_, hw_started, frame_buffer_,
                   cb, st, delivered, ret>>

\* ... data_ready_.store(false, release)
WD_Clear ==
    /\ wd.pc = "clear"
    /\ data_ready_' = FALSE
    /\ wd' = [wd EXCEPT !.pc = "ret"]
    /\ UNCHANGED <<ringVars, nonDevVars, active_, mutex_, hw_started, frame_buffer_, cb, st,
                   delivered, ret>>

\* return AudioFrame(frame_buffer_.data(), to_read); the stream yields the frame
WD_Return ==
    /\ wd.pc = "ret"
    /\ delivered' = delivered \o [k \in 1..wd.to_read |-> frame_buffer_[k - 1]]
    /\ ret' = [kind |-> "frame", len |-> wd.to_read]
    /\ mutex_' = "none"
    /\ wd' = [wd EXCEPT !.pc = stream_next(TRUE)]
    /\ UNCHANGED <<ringVars, nonDevVars, active_, data_ready_, hw_started, frame_buffer_, cb, st>>

----------------------------------------------------------------------------
(* AudioDevice::stop(), called on a started device *)

\* active_ = false
ST_ClearActive ==
    /\ st.pc = "idle"
    /\ wd.pc \notin {"created", "start_active"}
    /\ active_' = FALSE
    /\ st' = [st EXCEPT !.pc = "notify"]
    /\ UNCHANGED <<ringVars, nonDevVars, data_ready_, mutex_, hw_started, frame_buffer_, cb, wd,
                   delivered, ret>>

\* cv_.notify_all()
ST_Notify ==
    /\ st.pc = "notify"
    /\ st' = [st EXCEPT !.pc = "hw_stop"]
    /\ wd' = IF wd.pc = "waiting" THEN [wd EXCEPT !.pc = "wake"] ELSE wd
    /\ UNCHANGED <<ringVars, nonDevVars, active_, data_ready_, mutex_, hw_started, frame_buffer_,
                   cb, delivered, ret>>

\* ma_device_stop(&handle_->device): returns once no callback is running
ST_HwStop ==
    /\ st.pc = "hw_stop"
    /\ cb.pc = "idle"
    /\ hw_started' = FALSE
    /\ st' = [st EXCEPT !.pc = "done"]
    /\ UNCHANGED <<ringVars, nonDevVars, active_, data_ready_, mutex_, frame_buffer_, cb, wd,
                   delivered, ret>>

NextDevice ==
    \/ \E frame_count \in 1..MaxBatch : CB_Invoke(frame_count)
    \/ CB_PushCall \/ CB_PushRet \/ CB_SetReady \/ CB_Notify
    \/ P_LoadWrite \/ P_LoadRead \/ P_StoreSlot \/ P_StoreIndex
    \/ WD_StartHw \/ WD_StartActive \/ WD_Loop \/ WD_Lock \/ WD_CheckReady
    \/ WD_CheckActive \/ WD_Block \/ WD_SpuriousWake \/ WD_Wake \/ WD_AfterWait
    \/ WD_Size \/ WD_PopCall \/ WD_PopRet \/ WD_Size2 \/ WD_Clear \/ WD_Return
    \/ C_LoadRead \/ C_LoadWrite \/ C_LoadSlot \/ C_StoreIndex
    \/ ST_ClearActive \/ ST_Notify \/ ST_HwStop

SpecDevice == Init /\ [][NextDevice]_vars

----------------------------------------------------------------------------
(* Claims on the device handoff *)

\* C4: no sample is lost or duplicated between on_audio_data and wait_for_data:
\* in every interleaving the frames returned so far, concatenated, are the samples
\* accepted into the ring buffer, in order and each once; an accepted sample that
\* was not returned yet is still in the ring buffer, and only the samples push
\* rejected on a full ring are missing from the accepted sequence.
C4_NoLossNoDup ==
    /\ IsPrefix(delivered, pushed)
    /\ \A j, k \in 1..Len(pushed) : j < k => pushed[j] < pushed[k]
    /\ wd.pc \notin {"pop", "size2", "clear", "ret"} => delivered = popped
    /\ wd.pc \in {"size2", "clear", "ret"} =>
          /\ wd.popped = wd.to_read
          /\ popped = delivered \o [k \in 1..wd.to_read |-> frame_buffer_[k - 1]]
    /\ (prod.pc = "idle" /\ cons.pc = "idle") => size = Len(pushed) - Len(popped)

\* C4 witness: frames were returned after the ring rejected a sample and after the
\* indices wrapped
C4_Witness ==
    /\ ret.kind = "frame" /\ wd.pc = "loop"
    /\ Len(delivered) > Capacity
    /\ Len(pushed) < cb.base

----------------------------------------------------------------------------
(* Harness, command thread: command_listener and handle_command *)

Goto(t, label) == pc' = [pc EXCEPT ![t] = label]

\* command_listener: while (!g_should_exit && ...); run_audio_loop: if (g_should_exit) break;
loop_exits_never(should_exit) == FALSE
loop_exits(should_exit) == should_exit

\* cmd::start_recording: if (g_state == RecordingState::Recording)
start_never_rejected == FALSE
start_rejected == g_state = "Recording"

\* cmd::stop_recording: if (g_state == RecordingState::Idle)
stop_rejected == g_state = "Idle"

\* cmd::pause_recording: if (g_state == RecordingState::Recording)
pause_allowed == g_state = "Recording"

\* cmd::resume_recording: if (g_state == RecordingState::Paused)
resume_allowed == g_state = "Paused"

\* handle_command, Command::Kill: if (g_state == RecordingState::Recording)
kill_never_stops == FALSE
kill_stops_first == g_state = "Recording"

\* process_audio_frame: if (!g_session || g_state != RecordingState::Recording) return
frame_dropped == ~g_session.present \/ g_state # "Recording"

\* process_audio_frame: if (g_session->frame_count % 5 == 0)
level_always(frame_count) == TRUE
level_due(frame_count) == frame_count % LevelInterval = 0

\* cmd::start_recording: if (!writer_result)
writer_never_failed(created) == FALSE
writer_failed(created) == ~created

Snapshot == [state |-> g_state, session |-> g_session]

\* handle_command: switch (command)
DispatchLabel(command) ==
    CASE command = "Start" -> "start_lock"
      [] command = "Stop" -> "stop_lock"
      [] command = "Pause" -> "pause"
      [] command = "Resume" -> "resume"
      [] command = "Status" -> "status"
      [] command = "Kill" -> "kill"
      [] command = "Unknown" -> "unknown"

\* while (!g_should_exit && ...
CmdLoopCheck ==
    /\ pc["cmd"] = "read"
    /\ Goto("cmd", IF loop_exits(g_should_exit) THEN "exited" ELSE "getline")
    /\ UNCHANGED <<auxVars, ringVars, devVars, g_state, g_should_exit, g_session, g_session_mutex,
                   out, now, stopv, cmd, mainv, cmd_emitted, endlog>>

\* ... std::getline(std::cin, line)): a line arrives; blank lines are skipped, any
\* other line is parsed and dispatched
CmdLine(word) ==
    /\ pc["cmd"] = "getline"
    /\ IF word = ""
       THEN /\ Goto("cmd", "read")
            /\ UNCHANGED <<cmd, cmd_emitted, stopv>>
       ELSE /\ cmd.n < MaxCmds
            /\ cmd' = [cmd EXCEPT !.cur = parse_command(word), !.n = cmd.n + 1,
                                  !.pre = NoPre, !.writer_result = "none"]
            /\ cmd_emitted' = <<>>
            /\ stopv' = [stopv EXCEPT !["cmd"].ret_to = "done"]
            /\ Goto("cmd", DispatchLabel(parse_command(word)))
    /\ UNCHANGED <<auxVars, ringVars, devVars, g_state, g_should_exit, g_session, g_session_mutex,
                   out, now, mainv, endlog>>

\* std::getline fails: the controller closed the pipe
CmdEof ==
    /\ pc["cmd"] = "getline"
    /\ Goto("cmd", "exited")
    /\ UNCHANGED <<auxVars, ringVars, devVars, g_state, g_should_exit, g_session, g_session_mutex,
                   out, now, stopv, cmd, mainv, cmd_emitted, endlog>>

\* handle_command returned: next iteration of the loop
CmdDone ==
    /\ pc["cmd"] = "done"
    /\ Goto("cmd", "read")
    /\ UNCHANGED <<auxVars, ringVars, devVars, g_state, g_should_exit, g_session, g_session_mutex,
                   out, now, stopv, cmd, mainv, cmd_emitted, endlog>>

\* cmd::start_recording: std::lock_guard lock(g_session_mutex)
StartLock ==
    /\ pc["cmd"] = "start_lock"
    /\ g_session_mutex = "none"
    /\ g_session_mutex' = "cmd"
    /\ Goto("cmd", "start_check")
    /\ UNCHANGED <<auxVars, ringVars, devVars, g_state, g_should_exit, g_session, out, now, stopv,
                   cmd, mainv, cmd_emitted, endlog>>

\* if (g_state == Recording) { emit_error("Already recording"); return; }
StartCheck ==
    /\ pc["cmd"] = "start_check"
    /\ cmd' = [cmd EXCEPT !.pre = Snapshot]
    /\ IF start_rejected
       THEN /\ Emit("cmd", EvError("Already recording"))
            /\ g_session_mutex' = "none"
            /\ Goto("cmd", "done")
       ELSE /\ Goto("cmd", "start_create")
            /\ UNCHANGED <<out, cmd_emitted, g_session_mutex>>
    /\ UNCHANGED <<auxVars, ringVars, devVars, g_state, g_should_exit, g_session, now, stopv,
                   mainv, endlog>>

\* generate_session_id(); create_directories; Session session; WavWriter::create:
\* on failure emit_error and return; else create_engine, open the transcript file
StartCreate(created) ==
    /\ pc["cmd"] = "start_create"
    /\ IF ~writer_failed(created)
       THEN /\ cmd' = [cmd EXCEPT !.writer_result = IF created THEN "ok" ELSE "error",
                                  !.session =
                         [present |-> TRUE, id |-> now, start_time |-> now,
                          writer_open |-> TRUE, samples_written |-> 0,
                          transcript_open |-> TRUE, frame_count |-> 0,
                          all_full |-> TRUE]]
            /\ Goto("cmd", "start_install")
            /\ UNCHANGED <<out, cmd_emitted, g_session_mutex>>
       ELSE /\ Emit("cmd", EvError("Failed to create audio file"))
            /\ g_session_mutex' = "none"
            /\ Goto("cmd", "done")
            /\ cmd' = [cmd EXCEPT !.writer_result = "error"]
    /\ UNCHANGED <<auxVars, ringVars, devVars, g_state, g_should_exit, g_session, now, stopv,
                   mainv, endlog>>

\* std::filesystem::create_directories(session_path) fails: it throws
\* filesystem_error, nothing on the command thread catches it, std::terminate ends
\* the process
StartCreateThrows ==
    /\ pc["cmd"] = "start_create"
    /\ pc' = [t \in Threads |-> "terminated"]
    /\ UNCHANGED <<auxVars, ringVars, devVars, g_state, g_should_exit, g_session, g_session_mutex,
                   out, now, stopv, cmd, mainv, cmd_emitted, endlog>>

\* g_session = std::move(session)
StartInstall ==
    /\ pc["cmd"] = "start_install"
    /\ g_session' = cmd.session
    /\ cmd' = [cmd EXCEPT !.session = NoSession]
    /\ Goto("cmd", "start_state")
    /\ UNCHANGED <<auxVars, ringVars, devVars, g_state, g_should_exit, g_session_mutex, out, now,
                   stopv, mainv, cmd_emitted, endlog>>

\* g_state = RecordingState::Recording
StartState ==
    /\ pc["cmd"] = "start_state"
    /\ g_state' = "Recording"
    /\ Goto("cmd", "start_emit")
    /\ UNCHANGED <<auxVars, ringVars, devVars, g_should_exit, g_session, g_session_mutex, out, now,
                   stopv, cmd, mainv, cmd_emitted, endlog>>

\* telemetry::global().session_start(g_session->id, session_path.string())
StartEmitStart ==
    /\ pc["cmd"] = "start_emit"
    /\ Emit("cmd", EvSessionStart(g_session.id))
    /\ Goto("cmd", "start_emit_status")
    /\ UNCHANGED <<auxVars, ringVars, devVars, g_state, g_should_exit, g_session, g_session_mutex,
                   now, stopv, cmd, mainv, endlog>>

\* telemetry::emit_status("recording"); return (the lock_guard unlocks)
StartEmitStatus ==
    /\ pc["cmd"] = "start_emit_status"
    /\ Emit("cmd", EvStatus("recording"))
    /\ g_session_mutex' = "none"
    /\ Goto("cmd", "done")
    /\ UNCHANGED <<auxVars, ringVars, devVars, g_state, g_should_exit, g_session, now, stopv, cmd,
                   mainv, endlog>>

----------------------------------------------------------------------------
(* cmd::stop_recording, on the thread t that calls it *)

\* std::lock_guard lock(g_session_mutex)
StopLock(t) ==
    /\ pc[t] = "stop_lock"
    /\ g_session_mutex = "none"
    /\ g_session_mutex' = t
    /\ Goto(t, "stop_check")
    /\ UNCHANGED <<auxVars, ringVars, devVars, g_state, g_should_exit, g_session, out, now, stopv,
                   cmd, mainv, cmd_emitted, endlog>>

\* if (g_state == Idle) { emit_error("Not recording"); return; }  if (g_session) ...
StopCheck(t) ==
    /\ pc[t] = "stop_check"
    /\ cmd' = IF t = "cmd" /\ cmd.cur = "Stop" THEN [cmd EXCEPT !.pre = Snapshot] ELSE cmd
    /\ IF stop_rejected
       THEN /\ Emit(t, EvError("Not recording"))
            /\ g_session_mutex' = "none"
            /\ Goto(t, stopv[t].ret_to)
       ELSE /\ Goto(t, IF g_session.present THEN "stop_duration" ELSE "stop_state")
            /\ UNCHANGED <<out, cmd_emitted, g_session_mutex>>
    /\ UNCHANGED <<auxVars, ringVars, devVars, g_state, g_should_exit, g_session, now, stopv,
                   mainv, endlog>>

\* auto duration = duration_cast<seconds>(steady_clock::now() - g_session->start_time)
StopDuration(t) ==
    /\ pc[t] = "stop_duration"
    /\ stopv' = [stopv EXCEPT ![t].duration = now - g_session.start_time]
    /\ Goto(t, "stop_close")
    /\ UNCHANGED <<auxVars, ringVars, devVars, g_state, g_should_exit, g_session, g_session_mutex,
                   out, now, cmd, mainv, cmd_emitted, endlog>>

\* g_session->audio_writer->close(); g_session->transcript_file.close()
StopClose(t) ==
    /\ pc[t] = "stop_close"
    /\ g_session' = [g_session EXCEPT !.writer_open = FALSE, !.transcript_open = FALSE]
    /\ Goto(t, "stop_emit_end")
    /\ UNCHANGED <<auxVars, ringVars, devVars, g_state, g_should_exit, g_session_mutex, out, now,
                   stopv, cmd, mainv, cmd_emitted, endlog>>

\* session_end(g_session->id, audio_writer->samples_written() * sizeof(float), duration)
StopEmitEnd(t) ==
    /\ pc[t] = "stop_emit_end"
    /\ Emit(t, EvSessionEnd(g_session.id, g_session.samples_written * sizeof_float,
                            stopv[t].duration))
    /\ endlog' = Append(endlog, [id |-> g_session.id,
                                 bytes |-> g_session.samples_written * sizeof_float,
                                 duration |-> stopv[t].duration,
                                 frames |-> g_session.frame_count,
                                 all_full |-> g_session.all_full])
    /\ Goto(t, "stop_reset")
    /\ UNCHANGED <<auxVars, ringVars, devVars, g_state, g_should_exit, g_session, g_session_mutex,
                   now, stopv, cmd, mainv>>

\* g_session.reset()
StopReset(t) ==
    /\ pc[t] = "stop_reset"
    /\ g_session' = NoSession
    /\ Goto(t, "stop_state")
    /\ UNCHANGED <<auxVars, ringVars, devVars, g_state, g_should_exit, g_session_mutex, out, now,
                   stopv, cmd, mainv, cmd_emitted, endlog>>

\* g_state = RecordingState::Idle
StopState(t) ==
    /\ pc[t] = "stop_state"
    /\ g_state' = "Idle"
    /\ Goto(t, "stop_emit_status")
    /\ UNCHANGED <<auxVars, ringVars, devVars, g_should_exit, g_session, g_session_mutex, out, now,
                   stopv, cmd, mainv, cmd_emitted, endlog>>

\* telemetry::emit_status("idle"); return (the lock_guard unlocks)
StopEmitStatus(t) ==
    /\ pc[t] = "stop_emit_status"
    /\ Emit(t, EvStatus("idle"))
    /\ g_session_mutex' = "none"
    /\ Goto(t, stopv[t].ret_to)
    /\ UNCHANGED <<auxVars, ringVars, devVars, g_state, g_should_exit, g_session, now, stopv, cmd,
                   mainv, endlog>>

----------------------------------------------------------------------------
(* Harness, command thread: pause, resume, status, kill, unknown *)

\* cmd::pause_recording: if (g_state == Recording) ... else ...   (no lock is taken)
PauseRead ==
    /\ pc["cmd"] = "pause"
    /\ cmd' = [cmd EXCEPT !.pre = Snapshot]
    /\ Goto("cmd", IF pause_allowed THEN "pause_set" ELSE "pause_err")
    /\ UNCHANGED <<auxVars, ringVars, devVars, g_state, g_should_exit, g_session, g_session_mutex,
                   out, now, stopv, mainv, cmd_emitted, endlog>>

\* g_state = RecordingState::Paused
PauseSet ==
    /\ pc["cmd"] = "pause_set"
    /\ g_state' = "Paused"
    /\ Goto("cmd", "pause_emit")
    /\ UNCHANGED <<auxVars, ringVars, devVars, g_should_exit, g_session, g_session_mutex, out, now,
                   stopv, cmd, mainv, cmd_emitted, endlog>>

\* telemetry::emit_status("paused")
PauseEmit ==
    /\ pc["cmd"] = "pause_emit"
    /\ Emit("cmd", EvStatus("paused"))
    /\ Goto("cmd", "done")
    /\ UNCHANGED <<auxVars, ringVars, devVars, g_state, g_should_exit, g_session, g_session_mutex,
                   now, stopv, cmd, mainv, endlog>>

\* telemetry::emit_error("Not recording")
PauseErr ==
    /\ pc["cmd"] = "pause_err"
    /\ Emit("cmd", EvError("Not recording"))
    /\ Goto("cmd", "done")
    /\ UNCHANGED <<auxVars, ringVars, devVars, g_state, g_should_exit, g_session, g_session_mutex,
                   now, stopv, cmd, mainv, endlog>>

\* cmd::resume_recording: if (g_state == Paused) ... else ...   (no lock is taken)
ResumeRead ==
    /\ pc["cmd"] = "resume"
    /\ cmd' = [cmd EXCEPT !.pre = Snapshot]
    /\ Goto("cmd", IF resume_allowed THEN "resume_set" ELSE "resume_err")
    /\ UNCHANGED <<auxVars, ringVars, devVars, g_state, g_should_exit, g_session, g_session_mutex,
                   out, now, stopv, mainv, cmd_emitted, endlog>>

\* g_state = RecordingState::Recording
ResumeSet ==
    /\ pc["cmd"] = "resume_set"
    /\ g_state' = "Recording"
    /\ Goto("cmd", "resume_emit")
    /\ UNCHANGED <<auxVars, ringVars, devVars, g_should_exit, g_session, g_session_mutex, out, now,
                   stopv, cmd, mainv, cmd_emitted, endlog>>

\* telemetry::emit_status("recording")
ResumeEmit ==
    /\ pc["cmd"] = "resume_emit"
    /\ Emit("cmd", EvStatus("recording"))
    /\ Goto("cmd", "done")
    /\ UNCHANGED <<auxVars, ringVars, devVars, g_state, g_should_exit, g_session, g_session_mutex,
                   now, stopv, cmd, mainv, endlog>>

\* telemetry::emit_error("Not paused")
ResumeErr ==
    /\ pc["cmd"] = "resume_err"
    /\ Emit("cmd", EvError("Not paused"))
    /\ Goto("cmd", "done")
    /\ UNCHANGED <<auxVars, ringVars, devVars, g_state, g_should_exit, g_session, g_session_mutex,
                   now, stopv, cmd, mainv, endlog>>

\* Command::Status: g_state.load()
StatusRead ==
    /\ pc["cmd"] = "status"
    /\ cmd' = [cmd EXCEPT !.pre = Snapshot, !.state_read = g_state]
    /\ Goto("cmd", "status_emit")
    /\ UNCHANGED <<auxVars, ringVars, devVars, g_state, g_should_exit, g_session, g_session_mutex,
                   out, now, stopv, mainv, cmd_emitted, endlog>>

\* telemetry::emit_status(std::string(to_string(...)))
StatusEmit ==
    /\ pc["cmd"] = "status_emit"
    /\ Emit("cmd", EvStatus(to_string(cmd.state_read)))
    /\ Goto("cmd", "done")
    /\ UNCHANGED <<auxVars, ringVars, devVars, g_state, g_should_exit, g_session, g_session_mutex,
                   now, stopv, cmd, mainv, endlog>>

\* Command::Kill: if (g_state == Recording) cmd::stop_recording();
KillRead ==
    /\ pc["cmd"] = "kill"
    /\ cmd' = [cmd EXCEPT !.pre = Snapshot]
    /\ stopv' = [stopv EXCEPT !["cmd"].ret_to = "kill_flag"]
    /\ Goto("cmd", IF kill_stops_first THEN "stop_lock" ELSE "kill_flag")
    /\ UNCHANGED <<auxVars, ringVars, devVars, g_state, g_should_exit, g_session, g_session_mutex,
                   out, now, mainv, cmd_emitted, endlog>>

\* g_should_exit = true
KillFlag ==
    /\ pc["cmd"] = "kill_flag"
    /\ g_should_exit' = TRUE
    /\ Goto("cmd", "kill_info")
    /\ UNCHANGED <<auxVars, ringVars, devVars, g_state, g_session, g_session_mutex, out, now,
                   stopv, cmd, mainv, cmd_emitted, endlog>>

\* telemetry::emit_info("Shutting down")
KillInfo ==
    /\ pc["cmd"] = "kill_info"
    /\ Emit("cmd", EvInfo("Shutting down"))
    /\ Goto("cmd", "done")
    /\ UNCHANGED <<auxVars, ringVars, devVars, g_state, g_should_exit, g_session, g_session_mutex,
                   now, stopv, cmd, mainv, endlog>>

\* Command::Unknown: telemetry::emit_error("Unknown command")
UnknownEmit ==
    /\ pc["cmd"] = "unknown"
    /\ Emit("cmd", EvError("Unknown command"))
    /\ Goto("cmd", "done")
    /\ UNCHANGED <<auxVars, ringVars, devVars, g_state, g_should_exit, g_session, g_session_mutex,
                   now, stopv, cmd, mainv, endlog>>

----------------------------------------------------------------------------
(* Harness, main thread: main, run_audio_loop, process_audio_frame *)

\* main: telemetry::emit_status("ready")
BootReady ==
    /\ pc["main"] = "boot_ready"
    /\ Emit("main", EvStatus("ready"))
    /\ Goto("main", "boot_init")
    /\ UNCHANGED <<auxVars, ringVars, devVars, g_state, g_should_exit, g_session, g_session_mutex,
                   now, stopv, cmd, mainv, endlog>>

\* auto device_result = init_audio(); if (!device_result) { emit_error(...); return 1; }
BootInit(ok) ==
    /\ pc["main"] = "boot_init"
    /\ IF ok
       THEN /\ Goto("main", "boot_thread")
            /\ UNCHANGED <<out, cmd_emitted>>
       ELSE /\ Emit("main", EvError("Failed to initialize audio device"))
            /\ Goto("main", "failed")
    /\ UNCHANGED <<auxVars, ringVars, devVars, g_state, g_should_exit, g_session, g_session_mutex,
                   now, stopv, cmd, mainv, endlog>>

\* std::jthread commander(command_listener)
BootThread ==
    /\ pc["main"] = "boot_thread"
    /\ pc' = [pc EXCEPT !["main"] = "boot_start", !["cmd"] = "read"]
    /\ UNCHANGED <<auxVars, ringVars, devVars, g_state, g_should_exit, g_session, g_session_mutex,
                   out, now, stopv, cmd, mainv, cmd_emitted, endlog>>

\* if (auto result = device.start(); !result) { emit_error(...); return 1; }
BootStart(ok) ==
    /\ pc["main"] = "boot_start"
    /\ IF ok
       THEN /\ Goto("main", "boot_info")
            /\ UNCHANGED <<out, cmd_emitted>>
       ELSE /\ Emit("main", EvError("Failed to start audio device"))
            /\ Goto("main", "failed")
    /\ UNCHANGED <<auxVars, ringVars, devVars, g_state, g_should_exit, g_session, g_session_mutex,
                   now, stopv, cmd, mainv, endlog>>

\* telemetry::emit_info("Audio device started")
BootInfo ==
    /\ pc["main"] = "boot_info"
    /\ Emit("main", EvInfo("Audio device started"))
    /\ Goto("main", "wait_frame")
    /\ UNCHANGED <<auxVars, ringVars, devVars, g_state, g_should_exit, g_session, g_session_mutex,
                   now, stopv, cmd, mainv, endlog>>

\* run_audio_loop: for (const auto &frame : create_audio_stream(device)): the stream
\* yields the next frame, of frame_len samples
M_FrameUpTo(limit, frame_len) ==
    /\ pc["main"] = "wait_frame"
    /\ mainv.frames < limit \/ g_should_exit
    /\ mainv' = [mainv EXCEPT !.frame_len = frame_len,
                              !.frames = IF @ < limit THEN @ + 1 ELSE @]
    /\ Goto("main", "exit_check")
    /\ UNCHANGED <<auxVars, ringVars, devVars, g_state, g_should_exit, g_session, g_session_mutex,
                   out, now, stopv, cmd, cmd_emitted, endlog>>

M_Frame(frame_len) == M_FrameUpTo(MaxFrames, frame_len)

\* if (g_should_exit) break; process_audio_frame(frame);
M_ExitCheck ==
    /\ pc["main"] = "exit_check"
    /\ Goto("main", IF loop_exits(g_should_exit) THEN "dev_stop" ELSE "f_lock")
    /\ UNCHANGED <<auxVars, ringVars, devVars, g_state, g_should_exit, g_session, g_session_mutex,
                   out, now, stopv, cmd, mainv, cmd_emitted, endlog>>

\* WavWriter::write: samples_written_ += samples.size()
samples_written_unchanged(samples_written_, samples_size) == samples_written_
samples_written_after(samples_written_, samples_size) == samples_written_ + samples_size

\* process_audio_frame: std::lock_guard lock(g_session_mutex)
F_Lock_unguarded ==
    /\ pc["main"] = "f_lock"
    /\ Goto("main", "f_check")
    /\ UNCHANGED <<auxVars, ringVars, devVars, g_state, g_should_exit, g_session, g_session_mutex,
                   out, now, stopv, cmd, mainv, cmd_emitted, endlog>>
F_Lock ==
    /\ pc["main"] = "f_lock"
    /\ g_session_mutex = "none"
    /\ g_session_mutex' = "main"
    /\ Goto("main", "f_check")
    /\ UNCHANGED <<auxVars, ringVars, devVars, g_state, g_should_exit, g_session, out, now, stopv,
                   cmd, mainv, cmd_emitted, endlog>>

\* if (!g_session || g_state != Recording) return;
F_Check ==
    /\ pc["main"] = "f_check"
    /\ IF frame_dropped
       THEN /\ g_session_mutex' = "none"
            /\ Goto("main", "wait_frame")
       ELSE /\ Goto("main", "f_write")
            /\ UNCHANGED g_session_mutex
    /\ UNCHANGED <<auxVars, ringVars, devVars, g_state, g_should_exit, g_session, out, now, stopv,
                   cmd, mainv, cmd_emitted, endlog>>

\* g_session->audio_writer->write(frame): WavWriter::write
F_Write ==
    /\ pc["main"] = "f_write"
    /\ g_session' =
          IF g_session.writer_open
          THEN [g_session EXCEPT !.samples_written =
                                     samples_written_after(@, mainv.frame_len),
                                 !.all_full = @ /\ mainv.frame_len = expected_samples]
          ELSE g_session
    /\ Goto("main", "f_level")
    /\ UNCHANGED <<auxVars, ringVars, devVars, g_state, g_should_exit, g_session_mutex, out, now,
                   stopv, cmd, mainv, cmd_emitted, endlog>>

\* float db = calculate_db_level(frame); if (frame_count % 5 == 0) emit_level(db)
F_Level ==
    /\ pc["main"] = "f_level"
    /\ IF level_due(g_session.frame_count)
       THEN Emit("main", EvLevel)
       ELSE UNCHANGED <<out, cmd_emitted>>
    /\ Goto("main", "f_text")
    /\ UNCHANGED <<auxVars, ringVars, devVars, g_state, g_should_exit, g_session, g_session_mutex,
                   now, stopv, cmd, mainv, endlog>>

\* if (transcriber && detect_voice_activity(frame)) if (auto text = transcribe(...))
\* { emit_text(*text); transcript_file << *text << " "; flush(); }
F_Text(has_text) ==
    /\ pc["main"] = "f_text"
    /\ IF has_text
       THEN Emit("main", EvText("text"))
       ELSE UNCHANGED <<out, cmd_emitted>>
    /\ Goto("main", "f_count")
    /\ UNCHANGED <<auxVars, ringVars, devVars, g_state, g_should_exit, g_session, g_session_mutex,
                   now, stopv, cmd, mainv, endlog>>

\* ++g_session->frame_count; return (the lock_guard unlocks)
F_Count ==
    /\ pc["main"] = "f_count"
    /\ g_session' = [g_session EXCEPT !.frame_count = @ + 1]
    /\ g_session_mutex' = "none"
    /\ Goto("main", "wait_frame")
    /\ UNCHANGED <<auxVars, ringVars, devVars, g_state, g_should_exit, out, now, stopv, cmd, mainv,
                   cmd_emitted, endlog>>

\* main: (void)device.stop()
M_DevStop ==
    /\ pc["main"] = "dev_stop"
    /\ Goto("main", "final_check")
    /\ UNCHANGED <<auxVars, ringVars, devVars, g_state, g_should_exit, g_session, g_session_mutex,
                   out, now, stopv, cmd, mainv, cmd_emitted, endlog>>

\* if (g_state == RecordingState::Recording) cmd::stop_recording();
M_FinalCheck ==
    /\ pc["main"] = "final_check"
    /\ stopv' = [stopv EXCEPT !["main"].ret_to = "emit_stopped"]
    /\ Goto("main", IF g_state = "Recording" THEN "stop_lock" ELSE "emit_stopped")
    /\ UNCHANGED <<auxVars, ringVars, devVars, g_state, g_should_exit, g_session, g_session_mutex,
                   out, now, cmd, mainv, cmd_emitted, endlog>>

\* telemetry::emit_status("stopped"); return 0;
M_EmitStopped ==
    /\ pc["main"] = "emit_stopped"
    /\ Emit("main", EvStatus("stopped"))
    /\ Goto("main", "finished")
    /\ UNCHANGED <<auxVars, ringVars, devVars, g_state, g_should_exit, g_session, g_session_mutex,
                   now, stopv, cmd, mainv, endlog>>

\* a second passes on the clocks (system_clock for the id, steady_clock for the duration)
Tick ==
    /\ now < MaxTime
    /\ now' = now + 1
    /\ UNCHANGED <<auxVars, ringVars, devVars, g_state, g_should_exit, g_session, g_session_mutex,
                   out, pc, stopv, cmd, mainv, cmd_emitted, endlog>>

NextHarness ==
    \/ BootReady \/ (\E ok \in BOOLEAN : BootInit(ok)) \/ BootThread
    \/ (\E ok \in BOOLEAN : BootStart(ok)) \/ BootInfo
    \/ CmdLoopCheck \/ (\E word \in Words : CmdLine(word)) \/ CmdEof \/ CmdDone
    \/ StartLock \/ StartCheck \/ (\E created \in BOOLEAN : StartCreate(created))
    \/ StartCreateThrows
    \/ StartInstall \/ StartState \/ StartEmitStart \/ StartEmitStatus
    \/ (\E t \in Threads : StopLock(t)) \/ (\E t \in Threads : StopCheck(t))
    \/ (\E t \in Threads : StopDuration(t)) \/ (\E t \in Threads : StopClose(t))
    \/ (\E t \in Threads : StopEmitEnd(t)) \/ (\E t \in Threads : StopReset(t))
    \/ (\E t \in Threads : StopState(t)) \/ (\E t \in Threads : StopEmitStatus(t))
    \/ PauseRead \/ PauseSet \/ PauseEmit \/ PauseErr
    \/ ResumeRead \/ ResumeSet \/ ResumeEmit \/ ResumeErr
    \/ StatusRead \/ StatusEmit \/ KillRead \/ KillFlag \/ KillInfo \/ UnknownEmit
    \/ (\E frame_len \in FrameLens : M_Frame(frame_len)) \/ M_ExitCheck
    \/ F_Lock \/ F_Check \/ F_Write \/ F_Level \/ (\E has_text \in BOOLEAN : F_Text(has_text))
    \/ F_Count \/ M_DevStop \/ M_FinalCheck \/ M_EmitStopped
    \/ Tick

SpecHarness == Init /\ [][NextHarness]_vars

----------------------------------------------------------------------------
(* Claims about the harness *)

Consistent ==
    /\ g_state \in {"Recording", "Paused"} => g_session.present
    /\ g_state = "Idle" => ~g_session.present

\* the labels at which the next step of a thread reads g_state or g_session
CmdReads ==
    {"start_check", "start_emit", "stop_check", "stop_duration", "stop_close",
     "stop_emit_end", "pause", "resume", "status", "kill"}
MainReads ==
    {"f_check", "f_write", "f_level", "f_count", "final_check", "stop_check",
     "stop_duration", "stop_close", "stop_emit_end"}

SameSession(a, b) ==
    /\ a.present = b.present /\ a.id = b.id /\ a.start_time = b.start_time
    /\ a.writer_open = b.writer_open /\ a.transcript_open = b.transcript_open

\* C5: when the command thread has finished a STOP, PAUSE or RESUME that found the
\* state Idle, it emitted exactly one error event, the state is Idle and there is no
\* session; when it has finished a START that found the state Recording, it emitted
\* exactly one error event, the state is Recording and the session is the one that
\* was there (same id, same start time, same open writer and transcript, and a frame
\* counter that was not reset).
C5_InvalidRejected ==
    pc["cmd"] = "done" =>
       /\ (cmd.cur \in {"Stop", "Pause", "Resume"} /\ cmd.pre.state = "Idle") =>
             /\ Len(cmd_emitted) = 1 /\ cmd_emitted[1].evt = "err"
             /\ g_state = "Idle" /\ g_session = NoSession
       /\ (cmd.cur = "Start" /\ cmd.pre.state = "Recording") =>
             /\ cmd_emitted = <<EvError("Already recording")>>
             /\ g_state = "Recording"
             /\ SameSession(g_session, cmd.pre.session) /\ g_session.writer_open
             /\ g_session.frame_count >= cmd.pre.session.frame_count
             /\ g_session.samples_written >= cmd.pre.session.samples_written

\* C5 witness: a second START was rejected while a session with processed frames was
\* recording, after a STOP had been rejected in Idle
C5_Witness ==
    /\ pc["cmd"] = "done" /\ cmd.cur = "Start" /\ cmd.pre.state = "Recording"
    /\ cmd.pre.session.frame_count > 0
    /\ \E i \in 1..Len(out) : out[i] = EvError("Not recording")

\* C6: whenever the next step of the command thread or of the main thread reads
\* g_state or g_session, the state is Recording or Paused only with a session present
\* and Idle only with no session present.
C6_ConsistentAtReads ==
    (pc["cmd"] \in CmdReads \/ pc["main"] \in MainReads) => Consistent

\* C6 witness: the main thread holds the session mutex and is about to test state and
\* session of a recording while the command thread is about to read the state without
\* the mutex
C6_Witness ==
    /\ pc["main"] = "f_check" /\ g_session_mutex = "main"
    /\ pc["cmd"] = "pause"
    /\ g_state = "Recording" /\ g_session.present /\ g_session.frame_count > 0

\* C7: no step of the main thread taken while g_state = Paused writes to the audio
\* writer, increments frame_count or emits a level or text event, and the step that
\* sets the state to Paused leaves the session and its open files as they are.
C7_PausedDropsFrames ==
    [][/\ (g_state = "Paused" /\ pc'["main"] # pc["main"]) =>
             /\ g_session' = g_session
             /\ Len(out') > Len(out) => out'[Len(out')].evt \notin {"level", "txt"}
       /\ (g_state # "Paused" /\ g_state' = "Paused") => g_session' = g_session]_vars

\* C8: every session-end event reports a duration >= 0 and, when all the frames
\* processed in the session were full periods, bytes = frame_count * samples per
\* period * sizeof(float); a START that found the state Idle and created its writer
\* emitted exactly one session-start event, then the status; a STOP that found the
\* state Recording emitted exactly one session-end event, for the session it found,
\* then the status, the session is discarded and the state is Idle.
C8_Accounting ==
    /\ \A i \in 1..Len(endlog) :
          /\ endlog[i].duration >= 0
          /\ endlog[i].all_full =>
                endlog[i].bytes = endlog[i].frames * expected_samples * sizeof_float
    /\ (pc["cmd"] = "done" /\ cmd.cur = "Start" /\ cmd.pre.state = "Idle"
          /\ cmd.writer_result = "ok") =>
          cmd_emitted = <<EvSessionStart(g_session.id), EvStatus("recording")>>
    /\ (pc["cmd"] = "done" /\ cmd.cur = "Stop" /\ cmd.pre.state = "Recording") =>
          /\ Len(endlog) > 0
          /\ endlog[Len(endlog)].id = cmd.pre.session.id
          /\ endlog[Len(endlog)].frames = cmd.pre.session.frame_count
          /\ cmd_emitted = <<EvSessionEnd(cmd.pre.session.id, endlog[Len(endlog)].bytes,
                                          endlog[Len(endlog)].duration),
                             EvStatus("idle")>>
          /\ g_state = "Idle" /\ g_session = NoSession

\* C8 witness: START from Idle, then MaxFrames full frames, then STOP a second later
C8_Witness ==
    /\ pc["cmd"] = "done" /\ cmd.cur = "Stop" /\ cmd.pre.state = "Recording"
    /\ Len(endlog) = 1 /\ endlog[1].all_full /\ endlog[1].frames = MaxFrames
    /\ endlog[1].duration > 0
    /\ Len(SelectSeq(out, LAMBDA e : e.evt = "session" /\ e.action = "start")) = 1

\* C9: when a START whose writer creation failed has finished, the command thread
\* emitted exactly one error event and nothing else, and g_state and g_session are
\* what they were when the command tested the state.
C9_WriterFailureAborts ==
    (pc["cmd"] = "done" /\ cmd.cur = "Start" /\ cmd.writer_result = "error") =>
       /\ cmd_emitted = <<EvError("Failed to create audio file")>>
       /\ g_state = cmd.pre.state
       /\ g_session = cmd.pre.session

\* C9 witness: the writer creation failed for a START given while a session with
\* processed frames was paused
C9_Witness ==
    /\ pc["cmd"] = "done" /\ cmd.cur = "Start" /\ cmd.writer_result = "error"
    /\ cmd.pre.state = "Paused" /\ cmd.pre.session.frame_count > 0

\* C10: the exit flag is set only by a KILL, and not before the stop it performs has
\* finished; a finished KILL has set the flag and emitted exactly one info event, as
\* its last event; a KILL that found the state Recording emitted session-end, status
\* idle and then the info event, with the session discarded and the state Idle; once
\* the flag is set the command thread dispatches no further command.
C10_KillStopsFirst ==
    /\ g_should_exit =>
          /\ cmd.cur = "Kill"
          /\ pc["cmd"] \in {"kill_info", "done", "read", "exited"}
    /\ (cmd.cur = "Kill" /\ pc["cmd"] \in {"done", "read", "exited"}) =>
          /\ g_should_exit
          /\ IF cmd.pre.state = "Recording"
             THEN /\ Len(endlog) > 0
                  /\ cmd_emitted =
                        <<EvSessionEnd(cmd.pre.session.id, endlog[Len(endlog)].bytes,
                                       endlog[Len(endlog)].duration),
                          EvStatus("idle"), EvInfo("Shutting down")>>
                  /\ g_state = "Idle" /\ g_session = NoSession
             ELSE cmd_emitted = <<EvInfo("Shutting down")>>

\* C10 witness: a KILL that found a recording with processed frames has run, the
\* command loop has ended and the main thread has finished
C10_Witness ==
    /\ pc["cmd"] = "exited" /\ pc["main"] = "finished"
    /\ cmd.cur = "Kill" /\ cmd.pre.state = "Recording"
    /\ cmd.pre.session.frame_count > 0 /\ g_should_exit

----------------------------------------------------------------------------
(* Session ids *)

IsSessionStart(e) == e.evt = "session" /\ e.action = "start"

\* C11: in a run in which no session was paused (START and STOP only change the
\* state), the ids carried by any two distinct session-start events differ.
C11_UniqueSessionIds ==
    (\A k \in 1..Len(out) : out[k] # EvStatus("paused")) =>
        \A i, j \in 1..Len(out) :
            (i < j /\ IsSessionStart(out[i]) /\ IsSessionStart(out[j])) =>
                out[i].id # out[j].id

----------------------------------------------------------------------------
(* telemetry::Emitter: two threads printing lines, byte by byte *)

\* the public methods of Emitter
Methods ==
    {"status", "text", "text_time", "level", "error", "info", "heartbeat",
     "session_start", "session_end"}

\* a thread calls one of the methods (status, text, error and info forward to emit)
E_Call(t, method) ==
    /\ emitter.th[t].pc = "idle"
    /\ emitter.th[t].calls < MaxEmits
    /\ emitter' = [emitter EXCEPT !.th[t] =
                      [pc |-> "lock", method |-> method, pos |-> 0, calls |-> @.calls + 1]]
    /\ UNCHANGED <<ringVars, devVars, appVars, esc, aw, wav, mv, mgr, ctl>>

\* std::lock_guard lock(mutex_)
E_Lock_unguarded(t) ==
    /\ emitter.th[t].pc = "lock"
    /\ emitter' = [emitter EXCEPT !.th[t].pc = "print"]
    /\ UNCHANGED <<ringVars, devVars, appVars, esc, aw, wav, mv, mgr, ctl>>
E_Lock(t) ==
    /\ emitter.th[t].pc = "lock"
    /\ emitter.mutex_ = "none"
    /\ emitter' = [emitter EXCEPT !.mutex_ = t, !.th[t].pc = "print"]
    /\ UNCHANGED <<ringVars, devVars, appVars, esc, aw, wav, mv, mgr, ctl>>

\* std::print(stdout, "{...}\n", ...): the next byte of the line reaches the stream;
\* the last byte of every format string is the newline
E_Print(t) ==
    /\ emitter.th[t].pc = "print"
    /\ emitter.th[t].pos < LineBytes
    /\ emitter' = [emitter EXCEPT
                      !.stream = Append(@, [by |-> t, call |-> emitter.th[t].calls,
                                            pos |-> emitter.th[t].pos + 1,
                                            newline |-> emitter.th[t].pos + 1 = LineBytes]),
                      !.th[t].pos = @ + 1]
    /\ UNCHANGED <<ringVars, devVars, appVars, esc, aw, wav, mv, mgr, ctl>>

\* std::fflush(stdout)
E_Flush(t) ==
    /\ emitter.th[t].pc = "print"
    /\ emitter.th[t].pos = LineBytes
    /\ emitter' = [emitter EXCEPT !.th[t].pc = "unlock"]
    /\ UNCHANGED <<ringVars, devVars, appVars, esc, aw, wav, mv, mgr, ctl>>

\* the method returns: the lock_guard releases mutex_
E_Unlock(t) ==
    /\ emitter.th[t].pc = "unlock"
    /\ emitter' = [emitter EXCEPT !.mutex_ = "none", !.th[t].pc = "idle"]
    /\ UNCHANGED <<ringVars, devVars, appVars, esc, aw, wav, mv, mgr, ctl>>

NextEmitter ==
    \/ (\E t \in Threads, method \in Methods : E_Call(t, method))
    \/ (\E t \in Threads : E_Lock(t))
    \/ (\E t \in Threads : E_Print(t))
    \/ (\E t \in Threads : E_Flush(t))
    \/ (\E t \in Threads : E_Unlock(t))

SpecEmitter == Init /\ [][NextEmitter]_vars

\* C12: the bytes of every event are contiguous in the output stream: a byte that is
\* not the first of its line directly follows the previous byte of the same event, and
\* a first byte is at the start of the stream or directly follows a newline.
C12_LinesAtomic ==
    \A i \in 1..Len(emitter.stream) :
        LET b == emitter.stream[i] IN
        IF b.pos = 1
        THEN i = 1 \/ emitter.stream[i - 1].newline
        ELSE /\ i > 1
             /\ emitter.stream[i - 1].by = b.by
             /\ emitter.stream[i - 1].call = b.call
             /\ emitter.stream[i - 1].pos = b.pos - 1

\* C12 witness: the command thread waits for mutex_ with a different kind of event
\* while the main thread is in the middle of its second line
C12_Witness ==
    /\ emitter.th["cmd"].pc = "lock" /\ emitter.th["cmd"].calls = 2
    /\ emitter.th["main"].pc = "print" /\ emitter.th["main"].pos = 1
    /\ emitter.th["main"].calls = 2
    /\ emitter.th["cmd"].method = "session_end" /\ emitter.th["main"].method = "level"
    /\ Len(emitter.stream) = 2 * LineBytes + 1

----------------------------------------------------------------------------
(* telemetry::json_escape and the lines built from its result; strings are
   sequences of byte values *)

\* the bytes strings are drawn from: 0x01, \b, \t, \n, \f, \r, 0x1f, space, quote,
\* backslash, 'a', 0x7f and a byte with the high bit set
Chars == {1, 8, 9, 10, 12, 13, 31, 32, 34, 92, 97, 127, 233}

Strings == UNION {[1..n -> Chars] : n \in 0..MaxStr}

\* the digit characters std::format produces for {:x}
HexDigit(d) == IF d < 10 THEN 48 + d ELSE 87 + d

\* std::format_to(back_inserter(result), "\\u{:04x}", static_cast<unsigned>(c))
FormatU04x(c) ==
    <<92, 117, HexDigit((c \div 4096) % 16), HexDigit((c \div 256) % 16),
      HexDigit((c \div 16) % 16), HexDigit(c % 16)>>

\* default: if (static_cast<unsigned char>(c) < 0x20)
is_control_never(c) == FALSE
is_control(c) == c < 32

\* json_escape: the switch on one character; what it appends to result
escape_char_raw(c) == <<c>>
escape_char(c) ==
    CASE c = 34 -> <<92, 34>>
      [] c = 92 -> <<92, 92>>
      [] c = 8 -> <<92, 98>>
      [] c = 12 -> <<92, 102>>
      [] c = 10 -> <<92, 110>>
      [] c = 13 -> <<92, 114>>
      [] c = 9 -> <<92, 116>>
      [] OTHER -> IF is_control(c) THEN FormatU04x(c) ELSE <<c>>

\* the line formats of Emitter::emit (status, text, error, info), session_start and
\* session_end
LineMethods == {"emit", "session_start", "session_end"}

\* "{\"evt\":\"err\",\"body\":\"" value "\"}\n"
\* "{\"evt\":\"session\",\"action\":\"start\",\"id\":\"" id "\",\"path\":\"" path "\"}\n"
\* "{\"evt\":\"session\",\"action\":\"end\",\"id\":\"" id "\",\"bytes\":0,\"duration\":0}\n"
SessionPrefix(action) ==
    <<123, 34, 101, 118, 116, 34, 58, 34, 115, 101, 115, 115, 105, 111, 110, 34, 44,
      34, 97, 99, 116, 105, 111, 110, 34, 58, 34>> \o action \o
    <<34, 44, 34, 105, 100, 34, 58, 34>>
FormatLine(method, escaped) ==
    CASE method = "emit" ->
            <<123, 34, 101, 118, 116, 34, 58, 34, 101, 114, 114, 34, 44, 34, 98, 111,
              100, 121, 34, 58, 34>> \o escaped \o <<34, 125, 10>>
      [] method = "session_start" ->
            SessionPrefix(<<115, 116, 97, 114, 116>>) \o escaped \o
            <<34, 44, 34, 112, 97, 116, 104, 34, 58, 34>> \o escaped \o <<34, 125, 10>>
      [] method = "session_end" ->
            SessionPrefix(<<101, 110, 100>>) \o escaped \o
            <<34, 44, 34, 98, 121, 116, 101, 115, 34, 58, 48, 44, 34, 100, 117, 114,
              97, 116, 105, 111, 110, 34, 58, 48, 125, 10>>

\* the number of string tokens of each line format
StringsIn(method) ==
    CASE method = "emit" -> 4
      [] method = "session_start" -> 8
      [] method = "session_end" -> 8

\* json_escape(input) is called: std::string result
Esc_Call(input) ==
    /\ esc.pc = "idle"
    /\ esc' = [pc |-> "loop", input |-> input, i |-> 1, result |-> <<>>,
               method |-> "none", line |-> <<>>]
    /\ UNCHANGED <<ringVars, devVars, appVars, emitter, aw, wav, mv, mgr, ctl>>

\* for (char c : input) switch (c) ...
Esc_Step ==
    /\ esc.pc = "loop"
    /\ esc.i <= Len(esc.input)
    /\ esc' = [esc EXCEPT !.result = @ \o escape_char(esc.input[esc.i]), !.i = @ + 1]
    /\ UNCHANGED <<ringVars, devVars, appVars, emitter, aw, wav, mv, mgr, ctl>>

\* return result
Esc_Return ==
    /\ esc.pc = "loop"
    /\ esc.i > Len(esc.input)
    /\ esc' = [esc EXCEPT !.pc = "escaped"]
    /\ UNCHANGED <<ringVars, devVars, appVars, emitter, aw, wav, mv, mgr, ctl>>

\* std::print(stdout, format, ..., json_escape(value)) of one of the methods
Esc_Print(method) ==
    /\ esc.pc = "escaped"
    /\ esc' = [esc EXCEPT !.pc = "printed", !.method = method,
                          !.line = FormatLine(method, esc.result)]
    /\ UNCHANGED <<ringVars, devVars, appVars, emitter, aw, wav, mv, mgr, ctl>>

\* the method returns
Esc_Done ==
    /\ esc.pc = "printed"
    /\ esc' = [esc EXCEPT !.pc = "idle"]
    /\ UNCHANGED <<ringVars, devVars, appVars, emitter, aw, wav, mv, mgr, ctl>>

NextEscape ==
    \/ (\E input \in Strings : Esc_Call(input))
    \/ Esc_Step \/ Esc_Return
    \/ (\E method \in LineMethods : Esc_Print(method))
    \/ Esc_Done

SpecEscape == Init /\ [][NextEscape]_vars

----------------------------------------------------------------------------
(* Claims about json_escape and the printed lines *)

CountByte(line, b) == Cardinality({i \in 1..Len(line) : line[i] = b})

\* the number of backslashes directly before byte i of the line
BackslashRun(line, i) ==
    CHOOSE k \in 0..(i - 1) :
        /\ \A j \in 1..k : line[i - j] = 92
        /\ k = i - 1 \/ line[i - k - 1] # 92

\* the quotes of the line that a JSON reader takes as string delimiters: those not
\* preceded by an odd number of backslashes
Delimiters(line) ==
    {i \in 1..Len(line) : line[i] = 34 /\ BackslashRun(line, i) % 2 = 0}

\* C13: every printed record contains exactly one newline byte, as its last byte, and
\* its string delimiters are exactly those of its format: no quote of a field value
\* ends a string early and no backslash swallows a closing quote.
C13_OneLinePerEvent ==
    esc.pc = "printed" =>
       /\ Len(esc.line) > 0 /\ esc.line[Len(esc.line)] = 10
       /\ CountByte(esc.line, 10) = 1
       /\ Cardinality(Delimiters(esc.line)) = 2 * StringsIn(esc.method)

\* C13 witness: a session-start line was printed for a value made of a newline and a
\* quote
C13_Witness ==
    /\ esc.pc = "printed" /\ esc.method = "session_start"
    /\ esc.input = <<10, 34>>

\* the image of one character, as the table states it
TableImage(c) ==
    CASE c = 34 -> <<92, 34>>
      [] c = 92 -> <<92, 92>>
      [] c = 10 -> <<92, 110>>
      [] c = 9 -> <<92, 116>>
      [] c = 8 -> <<92, 98>>
      [] c = 12 -> <<92, 102>>
      [] c = 13 -> <<92, 114>>
      [] c < 32 -> <<92, 117, 48, 48>> \o
                  <<HexDigit(c \div 16), HexDigit(c % 16)>>
      [] OTHER -> <<c>>

RECURSIVE TableImages(_)
TableImages(input) ==
    IF input = <<>> THEN <<>> ELSE TableImage(Head(input)) \o TableImages(Tail(input))

\* C14: the result of json_escape is the concatenation, in input order, of the images
\* of the characters: quote, backslash, \n, \t, \b, \f, \r as two-character escapes,
\* every other byte below 0x20 as \u00XX (lower-case hex digits), any other byte
\* unchanged; while the loop runs the result is that of the characters read so far.
C14_EscapeIsCharMap ==
    /\ esc.pc = "loop" => esc.result = TableImages(SubSeq(esc.input, 1, esc.i - 1))
    /\ esc.pc \in {"escaped", "printed"} => esc.result = TableImages(esc.input)

\* C14 witness: json_escape returned for the bytes 0x1f and quote
C14_Witness ==
    /\ esc.pc = "escaped" /\ esc.input = <<31, 34>>
    /\ esc.result = <<92, 117, 48, 48, 49, 102, 92, 34>>

----------------------------------------------------------------------------
(* Command recognition, STATUS *)

\* the six recognised words
TableCommand(word) ==
    IF word \in {"START", "STOP", "PAUSE", "RESUME", "STATUS", "KILL"}
    THEN CASE word = "START" -> "Start" [] word = "STOP" -> "Stop"
           [] word = "PAUSE" -> "Pause" [] word = "RESUME" -> "Resume"
           [] word = "STATUS" -> "Status" [] word = "KILL" -> "Kill"
    ELSE "Unknown"

\* C15: a line whose word is one of START, STOP, PAUSE, RESUME, STATUS, KILL is
\* dispatched as that command and any other word as Unknown; the steps that handle an
\* Unknown command change neither g_state, g_session nor the exit flag, and when the
\* handler has returned it has emitted exactly one error event.
C15_UnknownCommand ==
    /\ [](pc["cmd"] = "done" /\ cmd.cur = "Unknown" =>
             cmd_emitted = <<EvError("Unknown command")>>)
    /\ [][/\ \A word \in Words \ {""} : CmdLine(word) => cmd'.cur = TableCommand(word)
          /\ (pc'["cmd"] # pc["cmd"] /\ "unknown" \in {pc["cmd"], pc'["cmd"]}) =>
                /\ g_state' = g_state /\ g_session' = g_session
                /\ g_should_exit' = g_should_exit]_vars

\* C15 witness: an unrecognised word was handled while a session with processed
\* frames was recording
C15_Witness ==
    /\ pc["cmd"] = "done" /\ cmd.cur = "Unknown"
    /\ g_state = "Recording" /\ g_session.frame_count > 0

\* the status strings of the states
StateString(state) ==
    CASE state = "Idle" -> "idle" [] state = "Recording" -> "recording"
      [] state = "Paused" -> "paused" [] state = "Error" -> "error"

\* C16: when a STATUS command has been handled it has emitted exactly one event, the
\* status event carrying the string of the g_state it found, which is still the
\* current g_state; the steps that handle it change neither g_state, g_session (the
\* frame counter included) nor the exit flag.
C16_StatusNoEffect ==
    /\ [](pc["cmd"] = "done" /\ cmd.cur = "Status" =>
             /\ cmd_emitted = <<EvStatus(StateString(g_state))>>
             /\ g_state = cmd.pre.state)
    /\ [][(pc'["cmd"] # pc["cmd"]
             /\ {pc["cmd"], pc'["cmd"]} \cap {"status", "status_emit"} # {}) =>
                /\ g_state' = g_state /\ g_session' = g_session
                /\ g_should_exit' = g_should_exit]_vars

\* C16 witness: STATUS was handled while a session with processed frames was paused
C16_Witness ==
    /\ pc["cmd"] = "done" /\ cmd.cur = "Status"
    /\ cmd.state_read = "Paused" /\ g_session.frame_count > 0
    /\ cmd_emitted = <<EvStatus("paused")>>

----------------------------------------------------------------------------
(* Level cadence: one controller that starts, pauses and resumes, and a stream of
   CadenceFrames full frames *)

CadenceWords == {"START", "PAUSE", "RESUME"}

M_CadenceFrame == M_FrameUpTo(CadenceFrames, expected_samples)

NextCadence ==
    \/ BootReady \/ BootInit(TRUE) \/ BootThread \/ BootStart(TRUE) \/ BootInfo
    \/ CmdLoopCheck \/ (\E word \in CadenceWords : CmdLine(word)) \/ CmdDone
    \/ StartLock \/ StartCheck \/ StartCreate(TRUE)
    \/ StartInstall \/ StartState \/ StartEmitStart \/ StartEmitStatus
    \/ PauseRead \/ PauseSet \/ PauseEmit \/ PauseErr
    \/ ResumeRead \/ ResumeSet \/ ResumeEmit \/ ResumeErr
    \/ M_CadenceFrame \/ M_ExitCheck
    \/ F_Lock \/ F_Check \/ F_Write \/ F_Level \/ F_Text(FALSE) \/ F_Count

SpecCadence == Init /\ [][NextCadence]_vars

\* the events printed after the last session-start event
RECURSIVE SinceStart(_)
SinceStart(events) ==
    IF events = <<>> \/ IsSessionStart(events[Len(events)]) THEN <<>>
    ELSE Append(SinceStart(SubSeq(events, 1, Len(events) - 1)), events[Len(events)])

LevelsSinceStart == Len(SelectSeq(SinceStart(out), LAMBDA e : e.evt = "level"))

\* the number of level events the first n frames of a session are to produce
ExpectedLevels(n) == Cardinality({k \in 0..(n - 1) : k % 5 = 0})

\* C17: in a session whose session-start event is out, the level events emitted are
\* those of the frames n with n mod 5 = 0 among the frames that reached the level
\* step: frame_count of them, and the one being processed when it is past that step;
\* after 12 frames there are exactly 3.
C17_LevelCadence ==
    (g_session.present /\ pc["cmd"] \notin {"start_state", "start_emit"}) =>
       /\ LevelsSinceStart =
             ExpectedLevels(g_session.frame_count +
                            (IF pc["main"] \in {"f_text", "f_count"} THEN 1 ELSE 0))
       /\ g_session.frame_count = 12 => LevelsSinceStart = 3

\* C17 witness: 12 frames were processed in one session, which was paused and resumed
\* on the way
C17_Witness ==
    /\ g_session.frame_count = 12 /\ LevelsSinceStart = 3
    /\ pc["main"] = "wait_frame"
    /\ \E i \in 1..Len(out) : out[i] = EvStatus("paused")
    /\ out[Len(out)] = EvLevel

----------------------------------------------------------------------------
(* io::AsyncWriter: a producer thread calling write_bytes, an owner thread calling
   close, and the writer thread *)

AwOthers == <<ringVars, devVars, appVars, emitter, esc, wav, mv, mgr, ctl>>

\* write_bytes: if (write_queue_.size() >= max_queue_size)
queue_full_never(queue_size) == FALSE
queue_full(queue_size) == queue_size >= max_queue_size

\* close: if (!is_open_.exchange(false)) return;
close_returns_early_never(was_open) == FALSE
close_returns_early(was_open) == ~was_open

\* write / write_bytes is called with chunk number calls + 1
AW_WriteCall ==
    /\ aw.prod.pc = "idle"
    /\ aw.prod.calls < MaxWrites
    /\ aw' = [aw EXCEPT !.prod = [pc |-> "w_open", calls |-> @.calls + 1,
                                  closed_at_call |-> ~aw.is_open_,
                                  size_at_check |-> 0, result |-> "none"]]
    /\ UNCHANGED AwOthers

\* if (!is_open_) return false;
AW_WriteCheckOpen ==
    /\ aw.prod.pc = "w_open"
    /\ aw' = IF ~aw.is_open_
             THEN [aw EXCEPT !.prod.pc = "idle", !.prod.result = "false"]
             ELSE [aw EXCEPT !.prod.pc = "w_lock"]
    /\ UNCHANGED AwOthers

\* std::lock_guard lock(mutex_)
AW_WriteLock ==
    /\ aw.prod.pc = "w_lock"
    /\ aw.mutex_ = "none"
    /\ aw' = [aw EXCEPT !.mutex_ = "prod", !.prod.pc = "w_size"]
    /\ UNCHANGED AwOthers

\* if (write_queue_.size() >= max_queue_size) return false;
AW_WriteCheckFull ==
    /\ aw.prod.pc = "w_size"
    /\ aw' = IF queue_full(Len(aw.write_queue_))
             THEN [aw EXCEPT !.prod.pc = "idle", !.prod.result = "false",
                             !.prod.size_at_check = Len(aw.write_queue_),
                             !.mutex_ = "none"]
             ELSE [aw EXCEPT !.prod.pc = "w_emplace",
                             !.prod.size_at_check = Len(aw.write_queue_)]
    /\ UNCHANGED AwOthers

\* write_queue_.emplace(data.begin(), data.end())
AW_WriteEmplace ==
    /\ aw.prod.pc = "w_emplace"
    /\ aw' = [aw EXCEPT !.write_queue_ = Append(@, aw.prod.calls),
                        !.prod.pc = "w_notify"]
    /\ UNCHANGED AwOthers

\* cv_.notify_one()
AW_WriteNotify ==
    /\ aw.prod.pc = "w_notify"
    /\ aw' = [aw EXCEPT !.thread.pc = IF @ = "t_wait" THEN "t_woken" ELSE @,
                        !.prod.pc = "w_ret"]
    /\ UNCHANGED AwOthers

\* return true (the lock_guard unlocks); accepted: history of the chunks whose
\* write_bytes returned true
AW_WriteRet ==
    /\ aw.prod.pc = "w_ret"
    /\ aw' = [aw EXCEPT !.mutex_ = "none", !.prod.pc = "idle", !.prod.result = "true",
                        !.accepted = Append(@, aw.prod.calls)]
    /\ UNCHANGED AwOthers

\* close() is called, by the owner or by ~AsyncWriter
AW_CloseCall ==
    /\ aw.owner.pc = "idle"
    /\ aw.owner.calls < MaxCloses
    /\ aw' = [aw EXCEPT !.owner.pc = "c_xchg", !.owner.calls = @ + 1]
    /\ UNCHANGED AwOthers

\* if (!is_open_.exchange(false)) return;
AW_CloseExchange ==
    /\ aw.owner.pc = "c_xchg"
    /\ aw' = [aw EXCEPT !.is_open_ = FALSE, !.owner.was_open = aw.is_open_,
                        !.owner.pc = IF close_returns_early(aw.is_open_)
                                     THEN "idle" ELSE "c_stop"]
    /\ UNCHANGED AwOthers

\* should_stop_ = true
AW_CloseStop ==
    /\ aw.owner.pc = "c_stop"
    /\ aw' = [aw EXCEPT !.should_stop_ = TRUE, !.owner.pc = "c_notify"]
    /\ UNCHANGED AwOthers

\* cv_.notify_all()
AW_CloseNotify ==
    /\ aw.owner.pc = "c_notify"
    /\ aw' = [aw EXCEPT !.thread.pc = IF @ = "t_wait" THEN "t_woken" ELSE @,
                        !.owner.pc = "c_join"]
    /\ UNCHANGED AwOthers

\* if (writer_thread_.joinable()) writer_thread_.join()
AW_CloseJoin ==
    /\ aw.owner.pc = "c_join"
    /\ aw.thread.pc \in {"exited", "joined"}
    /\ aw' = [aw EXCEPT !.thread.pc = "joined", !.owner.pc = "c_file"]
    /\ UNCHANGED AwOthers

\* file_.close()
AW_CloseFile ==
    /\ aw.owner.pc = "c_file"
    /\ aw' = [aw EXCEPT !.file_open = FALSE,
                        !.file_closes = @ + 1,
                        !.owner.pc = "idle"]
    /\ UNCHANGED AwOthers

\* writer_thread_func: while (!should_stop_ || !write_queue_.empty()); the queue is
\* read here without mutex_: while the producer is emplacing, the read can give
\* either answer
T_LoopCheck(queue_empty) ==
    /\ aw.thread.pc = "loop"
    /\ \/ queue_empty = (aw.write_queue_ = <<>>)
       \/ aw.should_stop_ /\ aw.prod.pc = "w_emplace"
    /\ aw' = [aw EXCEPT !.thread.pc = IF ~aw.should_stop_ \/ ~queue_empty
                                      THEN "t_lock" ELSE "t_flush"]
    /\ UNCHANGED AwOthers

\* std::unique_lock lock(mutex_)
T_Lock ==
    /\ aw.thread.pc = "t_lock"
    /\ aw.mutex_ = "none"
    /\ aw' = [aw EXCEPT !.mutex_ = "thread", !.thread.pc = "t_pred"]
    /\ UNCHANGED AwOthers

\* cv_.wait predicate: !write_queue_.empty() || should_stop_
T_Pred ==
    /\ aw.thread.pc = "t_pred"
    /\ aw' = [aw EXCEPT !.thread.pc = IF aw.write_queue_ # <<>> \/ aw.should_stop_
                                      THEN "t_take" ELSE "t_block"]
    /\ UNCHANGED AwOthers

\* cv_.wait: the predicate was false: release mutex_ and sleep on cv_
T_Block ==
    /\ aw.thread.pc = "t_block"
    /\ aw' = [aw EXCEPT !.mutex_ = "none", !.thread.pc = "t_wait"]
    /\ UNCHANGED AwOthers

\* cv_.wait: a condition variable may wake without a notify
T_SpuriousWake ==
    /\ aw.thread.pc = "t_wait"
    /\ aw' = [aw EXCEPT !.thread.pc = "t_woken"]
    /\ UNCHANGED AwOthers

\* cv_.wait: woken: take mutex_ again and evaluate the predicate again
T_Wake ==
    /\ aw.thread.pc = "t_woken"
    /\ aw.mutex_ = "none"
    /\ aw' = [aw EXCEPT !.mutex_ = "thread", !.thread.pc = "t_pred"]
    /\ UNCHANGED AwOthers

\* if (write_queue_.empty()) continue; data = std::move(front()); pop(); unlock
T_Take ==
    /\ aw.thread.pc = "t_take"
    /\ aw' = IF aw.write_queue_ = <<>>
             THEN [aw EXCEPT !.mutex_ = "none", !.thread.pc = "loop"]
             ELSE [aw EXCEPT !.mutex_ = "none", !.thread.pc = "t_write",
                             !.thread.data = Head(aw.write_queue_),
                             !.write_queue_ = Tail(@)]
    /\ UNCHANGED AwOthers

\* file_.write(data); bytes_written_ += data.size()  (chunks counted, not bytes);
\* file: the chunks in the file, in the order written
T_Write ==
    /\ aw.thread.pc = "t_write"
    /\ aw' = [aw EXCEPT !.bytes_written_ = @ + 1, !.thread.pc = "loop",
                        !.file = Append(@, aw.thread.data)]
    /\ UNCHANGED AwOthers

\* file_.flush(); the thread function returns
T_Flush ==
    /\ aw.thread.pc = "t_flush"
    /\ aw' = [aw EXCEPT !.thread.pc = "exited"]
    /\ UNCHANGED AwOthers

NextAsync ==
    \/ AW_WriteCall \/ AW_WriteCheckOpen \/ AW_WriteLock \/ AW_WriteCheckFull
    \/ AW_WriteEmplace \/ AW_WriteNotify \/ AW_WriteRet
    \/ AW_CloseCall \/ AW_CloseExchange \/ AW_CloseStop \/ AW_CloseNotify
    \/ AW_CloseJoin \/ AW_CloseFile
    \/ (\E queue_empty \in BOOLEAN : T_LoopCheck(queue_empty))
    \/ T_Lock \/ T_Pred \/ T_Block \/ T_SpuriousWake \/ T_Wake \/ T_Take \/ T_Write
    \/ T_Flush

SpecAsync == Init /\ [][NextAsync]_vars

\* C18: the write queue never holds more than max_queue_size chunks; a write_bytes
\* call made while the writer was closed, or that found max_queue_size chunks in the
\* queue, returned false and enqueued nothing (its chunk is neither in the queue nor
\* written); the call that finds the queue full returns at that step.
C18_QueueBounded ==
    /\ Len(aw.write_queue_) <= max_queue_size
    /\ (aw.prod.pc = "idle" /\ aw.prod.calls > 0
          /\ (aw.prod.closed_at_call \/ aw.prod.size_at_check >= max_queue_size)) =>
          /\ aw.prod.result = "false"
          /\ \A k \in 1..Len(aw.write_queue_) : aw.write_queue_[k] # aw.prod.calls
          /\ aw.thread.data # aw.prod.calls
    /\ (aw.prod.pc \in {"w_emplace", "w_notify", "w_ret"}) =>
          aw.prod.size_at_check < max_queue_size

\* C18 witness: the producer found the queue full and its call returned false while
\* the writer thread was writing an earlier chunk
C18_Witness ==
    /\ aw.prod.pc = "idle" /\ aw.prod.result = "false"
    /\ aw.prod.size_at_check = max_queue_size /\ ~aw.prod.closed_at_call
    /\ Len(aw.write_queue_) = max_queue_size
    /\ aw.thread.pc = "t_write" /\ aw.is_open_

----------------------------------------------------------------------------
(* io::WavWriter: write, close and the destructor, called from one thread *)

WavOthers == <<ringVars, devVars, appVars, emitter, esc, aw, mv, mgr, ctl>>

\* static_cast<std::uint32_t>(x), and std::uint32_t arithmetic
to_uint32(x) == x % uint32_values

\* WavHeader::finalize(data_bytes)
finalize(header, data_bytes) ==
    [header EXCEPT !.data_size = to_uint32(data_bytes),
                   !.file_size = to_uint32(riff_overhead + to_uint32(data_bytes))]

\* WavWriter::close: if (!file_.is_open()) return;
wav_close_skipped_never(file_open) == FALSE
wav_close_skipped(file_open) == ~file_open

\* WavWriter::close, the whole body: finalize the header, seekp(0), write the header,
\* close the file
close_body(w) ==
    IF wav_close_skipped(w.file_open) THEN w
    ELSE [w EXCEPT !.header_ = finalize(@, w.samples_written_ * sizeof_float),
                   !.disk_header = finalize(w.header_, w.samples_written_ * sizeof_float),
                   !.header_rewrites = @ + 1,
                   !.file_open = FALSE]

\* WavWriter::write(samples)
Wav_Write(samples_size) ==
    /\ ~wav.destroyed
    /\ wav.writes < MaxWavWrites
    /\ wav' = IF ~wav.file_open
              THEN [wav EXCEPT !.writes = @ + 1]
              ELSE [wav EXCEPT !.writes = @ + 1,
                               !.file_length = @ + samples_size * sizeof_float,
                               !.samples_written_ =
                                   samples_written_after(@, samples_size),
                               !.total = @ + samples_size]
    /\ UNCHANGED WavOthers

\* WavWriter::close()
Wav_Close ==
    /\ ~wav.destroyed
    /\ wav.closes < MaxCloses
    /\ wav' = [close_body(wav) EXCEPT !.closes = @ + 1]
    /\ UNCHANGED WavOthers

\* WavWriter::~WavWriter: if (file_.is_open()) close();
Wav_Destroy ==
    /\ ~wav.destroyed
    /\ wav' = [(IF wav.file_open THEN close_body(wav) ELSE wav) EXCEPT
                  !.destroyed = TRUE]
    /\ UNCHANGED WavOthers

NextWav ==
    \/ (\E samples_size \in 1..MaxWriteLen : Wav_Write(samples_size))
    \/ Wav_Close
    \/ Wav_Destroy

SpecWav == Init /\ [][NextWav]_vars

\* both writers, each used by its own threads
NextWriters == NextAsync \/ NextWav

SpecWriters == Init /\ [][NextWriters]_vars

\* C19: close() is idempotent on both writers. The AsyncWriter's file is closed at
\* most once, and once a close() call has returned the stop, the join and the file
\* close have happened exactly once; the WavWriter's header is rewritten at most
\* once, and exactly once after a close() or the destructor. Every step of a later
\* AsyncWriter close() call changes nothing of the writer, and a later WavWriter
\* close() or destructor changes nothing but the call's own record.
C19_CloseIdempotent ==
    /\ [](/\ aw.file_closes <= 1
          /\ wav.header_rewrites <= 1
          /\ (aw.owner.pc = "idle" /\ aw.owner.calls >= 1) =>
                /\ aw.file_closes = 1 /\ ~aw.file_open
                /\ aw.should_stop_ /\ aw.thread.pc = "joined"
          /\ (wav.closes >= 1 \/ wav.destroyed) =>
                wav.header_rewrites = 1 /\ ~wav.file_open)
    /\ [][/\ (aw'.owner # aw.owner /\ aw'.owner.calls >= 2) =>
                [aw' EXCEPT !.owner = aw.owner] = aw
          /\ (wav' # wav /\ wav.header_rewrites = 1) =>
                \/ wav' = [wav EXCEPT !.closes = @ + 1]
                \/ wav' = [wav EXCEPT !.destroyed = TRUE]
                \/ wav' = [wav EXCEPT !.writes = @ + 1]]_vars

\* C19 witness: both writers were closed and written to before, close() was called a
\* second time on the AsyncWriter and has returned, and the WavWriter was closed
\* twice and then destroyed
C19_Witness ==
    /\ aw.owner.pc = "idle" /\ aw.owner.calls = 2 /\ ~aw.owner.was_open
    /\ aw.file_closes = 1 /\ aw.bytes_written_ > 0
    /\ wav.closes = 2 /\ wav.destroyed /\ wav.header_rewrites = 1
    /\ wav.total > 0

\* C20: while the WavWriter's file is open the header on disk declares data_size 0;
\* after close, with N the samples of all write calls, the header on disk has
\* data_size = N * 4 and file_size = 36 + N * 4, and the file is 44 + N * 4 bytes long.
C20_WavRoundTrip ==
    /\ wav.file_open => wav.disk_header.data_size = 0
    /\ ~wav.file_open =>
          /\ wav.disk_header.data_size = wav.total * sizeof_float
          /\ wav.disk_header.file_size = riff_overhead + wav.total * sizeof_float
          /\ wav.file_length = sizeof_WavHeader + wav.total * sizeof_float

----------------------------------------------------------------------------
(* io::WavWriter: move construction and move assignment between two objects *)

MoveOthers == <<ringVars, devVars, appVars, emitter, esc, aw, wav, mgr, ctl>>

\* std::ofstream after file_(std::move(other.file_)) / file_ = std::move(other.file_):
\* the moved-from stream has no file
moved_from_keeps_file(file_) == file_
moved_from(file_) == 0

\* WavWriter::close on one of the two objects: finalize with samples_written_,
\* rewrite the header, close the file
MoveCloseBody(m, w) ==
    LET file_ == m.obj[w].file_ IN
    IF wav_close_skipped(file_ # 0) THEN m
    ELSE [m EXCEPT !.file[file_].header_rewrites = @ + 1,
                   !.file[file_].final_samples = m.obj[w].samples_written_,
                   !.obj[w].file_ = 0]

\* the record of the operation just made
MoveOp(m, kind, dst, src) ==
    [m EXCEPT !.ops = @ + 1, !.op = [kind |-> kind, dst |-> dst, src |-> src]]

\* WavWriter::WavWriter(path, sample_rate, channels): a second writer on its own file
MV_Create(w, f) ==
    /\ mv.ops < MaxMoveOps
    /\ mv.obj[w].life = "unborn"
    /\ ~mv.file[f].created
    /\ mv' = MoveOp([mv EXCEPT !.obj[w] = [life |-> "alive", file_ |-> f,
                                          samples_written_ |-> 0],
                               !.file[f].created = TRUE],
                    "create", w, w)
    /\ UNCHANGED MoveOthers

\* WavWriter::WavWriter(WavWriter &&other)
MV_MoveConstruct(dst, src) ==
    /\ mv.ops < MaxMoveOps
    /\ dst # src
    /\ mv.obj[dst].life = "unborn"
    /\ mv.obj[src].life = "alive"
    /\ mv' = MoveOp([mv EXCEPT !.obj[dst] = [life |-> "alive",
                                            file_ |-> mv.obj[src].file_,
                                            samples_written_ |->
                                                mv.obj[src].samples_written_],
                               !.obj[src].file_ = moved_from(@)],
                    "move_construct", dst, src)
    /\ UNCHANGED MoveOthers

\* WavWriter::operator=(WavWriter &&other)
MV_MoveAssign(dst, src) ==
    /\ mv.ops < MaxMoveOps
    /\ mv.obj[dst].life = "alive"
    /\ mv.obj[src].life = "alive"
    /\ mv' = IF dst = src
             THEN MoveOp(mv, "move_assign", dst, src)
             ELSE LET closed == MoveCloseBody(mv, dst) IN
                  MoveOp([closed EXCEPT !.obj[dst].file_ = closed.obj[src].file_,
                                        !.obj[dst].samples_written_ =
                                            closed.obj[src].samples_written_,
                                        !.obj[src].file_ = moved_from(@)],
                         "move_assign", dst, src)
    /\ UNCHANGED MoveOthers

\* WavWriter::write(samples) on one of the two objects
MV_Write(w, samples_size) ==
    /\ mv.ops < MaxMoveOps
    /\ mv.obj[w].life = "alive"
    /\ mv' = IF mv.obj[w].file_ = 0
             THEN MoveOp(mv, "write", w, w)
             ELSE MoveOp([mv EXCEPT !.file[mv.obj[w].file_].total = @ + samples_size,
                                    !.obj[w].samples_written_ =
                                        samples_written_after(@, samples_size)],
                         "write", w, w)
    /\ UNCHANGED MoveOthers

\* WavWriter::close() on one of the two objects
MV_Close(w) ==
    /\ mv.ops < MaxMoveOps
    /\ mv.obj[w].life = "alive"
    /\ mv' = MoveOp(MoveCloseBody(mv, w), "close", w, w)
    /\ UNCHANGED MoveOthers

\* WavWriter::~WavWriter on one of the two objects
MV_Destroy(w) ==
    /\ mv.obj[w].life = "alive"
    /\ mv' = [MoveOp(IF mv.obj[w].file_ # 0 THEN MoveCloseBody(mv, w) ELSE mv,
                     "destroy", w, w) EXCEPT !.obj[w].life = "dead", !.ops = mv.ops]
    /\ UNCHANGED MoveOthers

NextMove ==
    \/ (\E w \in Writers, f \in Files : MV_Create(w, f))
    \/ (\E dst \in Writers, src \in Writers : MV_MoveConstruct(dst, src))
    \/ (\E dst \in Writers, src \in Writers : MV_MoveAssign(dst, src))
    \/ (\E w \in Writers, samples_size \in 1..MaxMoveWriteLen : MV_Write(w, samples_size))
    \/ (\E w \in Writers : MV_Close(w))
    \/ (\E w \in Writers : MV_Destroy(w))

SpecMove == Init /\ [][NextMove]_vars

\* a writer object that is alive and has the file open
Holders(f) == {w \in Writers : mv.obj[w].life = "alive" /\ mv.obj[w].file_ = f}

\* C21: a move (construction or assignment) between two distinct WavWriter objects
\* gives the destination the source's file and sample count and leaves the source
\* without a file; closing or destroying an object without a file rewrites no header;
\* at any time a created file is either held open by exactly one object and not yet
\* finalized, or held by none and finalized exactly once, with the count of all the
\* samples written to it.
C21_MoveTransfers ==
    /\ [](\A f \in Files :
            /\ mv.file[f].header_rewrites <= 1
            /\ Cardinality(Holders(f)) <= 1
            /\ mv.file[f].created =>
                  IF Holders(f) = {}
                  THEN /\ mv.file[f].header_rewrites = 1
                       /\ mv.file[f].final_samples = mv.file[f].total
                  ELSE mv.file[f].header_rewrites = 0)
    /\ [][/\ (/\ mv' # mv
              /\ mv'.op.kind \in {"move_construct", "move_assign"}
              /\ mv'.op.dst # mv'.op.src) =>
                 /\ mv'.obj[mv'.op.src].file_ = 0
                 /\ mv'.obj[mv'.op.dst].file_ = mv.obj[mv'.op.src].file_
                 /\ mv'.obj[mv'.op.dst].samples_written_ =
                       mv.obj[mv'.op.src].samples_written_
                 /\ \A f \in Files : f = mv.obj[mv'.op.src].file_ =>
                       mv'.file[f] = mv.file[f]
          /\ (/\ mv' # mv
              /\ mv'.op.kind \in {"close", "destroy"}
              /\ mv.obj[mv'.op.dst].file_ = 0) =>
                 mv'.file = mv.file]_vars

\* C21 witness: writer a was written to and moved into a new writer b, a was destroyed,
\* b was written to again and closed: file 1 is finalized once with all the samples
C21_Witness ==
    /\ mv.obj["a"].life = "dead" /\ mv.obj["b"].life = "alive"
    /\ ~mv.file[2].created
    /\ mv.obj["b"].file_ = 0
    /\ mv.file[1].header_rewrites = 1
    /\ mv.file[1].total = 2 * MaxMoveWriteLen
    /\ mv.file[1].final_samples = mv.file[1].total

\* C21 witness, move assignment: writer b, open on file 2, was assigned from writer a
C21_WitnessAssign ==
    /\ mv.op.kind = "move_assign" /\ mv.op.dst = "b" /\ mv.op.src = "a"
    /\ mv.obj["b"].file_ = 1 /\ mv.obj["a"].file_ = 0
    /\ mv.file[2].header_rewrites = 1 /\ mv.file[2].total > 0
    /\ mv.file[1].total > 0 /\ mv.file[1].header_rewrites = 0

----------------------------------------------------------------------------
(* AudioDevice: progress of the threads *)

\* every thread that can take a step eventually takes one; the platform is not
\* obliged to invoke the callback again, and a condition variable is not obliged
\* to wake without a notify
DeviceFairness ==
    /\ WF_vars(CB_PushCall \/ CB_PushRet \/ CB_SetReady \/ CB_Notify
                 \/ P_LoadWrite \/ P_LoadRead \/ P_StoreSlot \/ P_StoreIndex)
    /\ WF_vars(WD_StartHw \/ WD_StartActive \/ WD_Loop \/ WD_Lock \/ WD_CheckReady
                 \/ WD_CheckActive \/ WD_Block \/ WD_Wake \/ WD_AfterWait
                 \/ WD_Size \/ WD_PopCall \/ WD_PopRet \/ WD_Size2 \/ WD_Clear
                 \/ WD_Return
                 \/ C_LoadRead \/ C_LoadWrite \/ C_LoadSlot \/ C_StoreIndex)
    /\ WF_vars(ST_ClearActive \/ ST_Notify \/ ST_HwStop)

SpecDeviceLive == SpecDevice /\ DeviceFairness

\* the consumer is inside wait_for_data's cv_.wait: about to lock, evaluating the
\* predicate, between the predicate and the sleep, asleep, or woken
InWait == wd.pc \in {"lock", "check_ready", "check_active", "block", "waiting", "wake"}

\* C22: once stop() has cleared active_ while the consumer is inside the wait of
\* wait_for_data, the consumer eventually returns from wait_for_data with the
\* "Device stopped" error, unless a callback is still running.
C22_StopReleases ==
    (~active_ /\ st.pc # "idle" /\ InWait) ~> (ret.kind = "stopped" \/ cb.pc # "idle")

----------------------------------------------------------------------------
(* Shutdown of the harness: KILL, the two loops, the device stopped *)

\* the command lines of SpecShutdown
ShutdownWords == {"START", "STOP", "PAUSE", "KILL"}

\* a step of the main thread
MainStep ==
    \/ BootReady \/ (\E ok \in BOOLEAN : BootInit(ok)) \/ BootThread
    \/ (\E ok \in BOOLEAN : BootStart(ok)) \/ BootInfo
    \/ M_Frame(expected_samples) \/ M_ExitCheck
    \/ F_Lock \/ F_Check \/ F_Write \/ F_Level \/ F_Text(FALSE) \/ F_Count
    \/ M_DevStop \/ M_FinalCheck \/ M_EmitStopped

\* a step of the command thread that does not wait for the controller
CmdStep ==
    \/ CmdLoopCheck \/ CmdDone
    \/ StartLock \/ StartCheck \/ StartCreate(TRUE)
    \/ StartInstall \/ StartState \/ StartEmitStart \/ StartEmitStatus
    \/ PauseRead \/ PauseSet \/ PauseEmit \/ PauseErr
    \/ KillRead \/ KillFlag \/ KillInfo

\* stop_recording, on the thread that called it
StopStep(t) ==
    \/ StopLock(t) \/ StopCheck(t) \/ StopDuration(t) \/ StopClose(t)
    \/ StopEmitEnd(t) \/ StopReset(t) \/ StopState(t) \/ StopEmitStatus(t)

NextShutdown ==
    \/ MainStep
    \/ CmdStep
    \/ (\E t \in Threads : StopStep(t))
    \/ (\E word \in ShutdownWords : CmdLine(word))
    \/ CmdEof

\* both threads run whenever they can; the stream keeps yielding frames (M_Frame is a
\* step of the main thread); the controller is not obliged to send anything
ShutdownFairness ==
    /\ WF_vars(MainStep \/ StopStep("main"))
    /\ WF_vars(CmdStep \/ StopStep("cmd"))

SpecShutdown == Init /\ [][NextShutdown]_vars /\ ShutdownFairness

\* device.start() succeeded: the main thread is in or past run_audio_loop
DeviceStarted ==
    pc["main"] \notin {"boot_ready", "boot_init", "boot_thread", "boot_start", "failed"}

\* the telemetry stream ends, as far as status events go, with status "stopped"
StoppedIsFinalStatus ==
    \E i \in 1..Len(out) :
        /\ out[i] = EvStatus("stopped")
        /\ \A j \in (i + 1)..Len(out) : out[j].evt # "status"

\* C24: once the exit flag is set and the device was started, the audio loop leaves,
\* the command loop leaves, main passes device.stop() and returns, and the last
\* status event of the stream is "stopped".
C24_ShutdownConverges ==
    (g_should_exit /\ DeviceStarted) ~>
        (pc["main"] = "finished" /\ pc["cmd"] = "exited" /\ StoppedIsFinalStatus)

\* C24 witness: KILL arrived while recording and frames were being processed; both
\* loops have left and "stopped" was emitted after the session's end
C24_Witness ==
    /\ g_should_exit /\ pc["main"] = "finished" /\ pc["cmd"] = "exited"
    /\ StoppedIsFinalStatus
    /\ endlog # <<>>
    /\ mainv.frames = MaxFrames

\* a step of the hardware thread inside on_audio_data
CallbackStep ==
    \/ CB_PushCall \/ CB_PushRet \/ CB_SetReady \/ CB_Notify
    \/ P_LoadWrite \/ P_LoadRead \/ P_StoreSlot \/ P_StoreIndex

\* C25: whenever a callback invocation is in progress its next step can be taken,
\* whatever the other threads hold or do; no step of the callback changes the holder
\* of the device mutex or of the session mutex; and an invocation in progress comes
\* to its end when the hardware thread runs.
C25_CallbackNeverBlocks ==
    /\ [](cb.pc # "idle" => ENABLED CallbackStep)
    /\ [][CallbackStep => UNCHANGED <<mutex_, g_session_mutex>>]_vars
    /\ ((cb.pc # "idle") ~> (cb.pc = "idle"))

\* C25 witness: the callback has pushed its samples and is about to store data_ready_
\* while the consumer holds mutex_ inside wait_for_data
C25_Witness ==
    /\ cb.pc = "set_ready" /\ mutex_ = "consumer"
    /\ wd.pc \in {"size", "pop", "size2", "clear"}

----------------------------------------------------------------------------
(* session.Manager (controller program): CreateSession and ListSessions *)

MgrOthers == <<ringVars, devVars, appVars, emitter, esc, aw, wav, mv, ctl>>

\* the course ids given to CreateSession; "" is a session outside any course
CourseIDs == {"", "2024_Fall_T100"}

\* for comparison: an id that differs from call to call
format_id_unique(clock, calls) == <<clock, calls>>
\* now.Format("20060102_150405"): the time to the second
format_id(clock, calls) == <<clock>>

\* m.sessions[id] = session: sessions is kept as a sequence with one entry per key
map_put(sessions, session) ==
    IF \E i \in 1..Len(sessions) : sessions[i].id = session.id
    THEN [i \in 1..Len(sessions) |->
             IF sessions[i].id = session.id THEN session ELSE sessions[i]]
    ELSE Append(sessions, session)

\* Manager.CreateSession(courseID, name): the n-th call gives the name n; os.MkdirAll
\* may fail, and then nothing is stored
SM_CreateSession(courseID, mkdir_ok) ==
    /\ mgr.calls < MaxSessions
    /\ LET session == [id |-> format_id(mgr.clock, mgr.calls), name |-> mgr.calls + 1,
                       course |-> courseID, created_at |-> <<mgr.clock, mgr.calls>>]
       IN mgr' = IF mkdir_ok
                 THEN [mgr EXCEPT !.calls = @ + 1,
                                  !.sessions = map_put(@, session),
                                  !.created = Append(@, session)]
                 ELSE [mgr EXCEPT !.calls = @ + 1]
    /\ UNCHANGED MgrOthers

\* a second passes
SM_Tick ==
    /\ mgr.clock < MaxClock
    /\ mgr' = [mgr EXCEPT !.clock = @ + 1]
    /\ UNCHANGED MgrOthers

\* the sessions of a sequence, newest first (sort.Slice by CreatedAt, descending)
RECURSIVE NewestFirst(_)
NewestFirst(sessions) ==
    IF sessions = {} THEN <<>>
    ELSE LET newest == CHOOSE s \in sessions :
                           \A o \in sessions : o.created_at[2] <= s.created_at[2]
         IN <<newest>> \o NewestFirst(sessions \ {newest})

\* Manager.ListSessions(courseID)
ListSessions(courseID) ==
    NewestFirst({mgr.sessions[i] : i \in
                    {k \in 1..Len(mgr.sessions) :
                        courseID = "" \/ mgr.sessions[k].course = courseID}})

NextManager ==
    \/ (\E courseID \in CourseIDs, mkdir_ok \in BOOLEAN : SM_CreateSession(courseID, mkdir_ok))
    \/ SM_Tick

SpecManager == Init /\ [][NextManager]_vars

\* the names of the sessions of a sequence
NamesOf(sessions) == {sessions[i].name : i \in 1..Len(sessions)}

\* C26: ListSessions("") returns as many sessions as CreateSession calls succeeded,
\* and ListSessions(courseID) returns exactly the sessions created with that course id.
C26_KeepsEverySession ==
    /\ Len(ListSessions("")) = Len(mgr.created)
    /\ \A courseID \in CourseIDs \ {""} :
          NamesOf(ListSessions(courseID)) =
              {mgr.created[i].name :
                  i \in {k \in 1..Len(mgr.created) : mgr.created[k].course = courseID}}

----------------------------------------------------------------------------
(* ipc.Controller (controller program): processEvent and the getters *)

CtlOthers == <<ringVars, devVars, appVars, emitter, esc, aw, wav, mv, mgr>>

\* TelemetryEvent, the fields processEvent reads
TelemetryEvent(evt, state, db, action, id) ==
    [evt |-> evt, state |-> state, db |-> db, action |-> action, id |-> id]

\* the events given to processEvent: every event type, states and actions the
\* harness emits and some it does not
TelemetryEvents ==
    {TelemetryEvent("status", state, 0, "", "") :
        state \in {"idle", "recording", "paused", "stopped", ""}}
    \cup {TelemetryEvent("level", "", db, "", "") : db \in {-12, 0}}
    \cup {TelemetryEvent("session", "", 0, action, id) :
             action \in {"start", "end", "restart"}, id \in {"", "20240105_143022"}}
    \cup {TelemetryEvent(evt, "recording", -3, "start", "20240105_143023") :
             evt \in {"txt", "err", "info", "heartbeat"}}

\* c.recording = (event.State == "recording")
recording_of_not_idle(state) == state # "idle"
recording_of(state) == state = "recording"

\* Controller.processEvent(event): the fields of the controller c afterwards
processEvent(c, event) ==
    CASE event.evt = "status" ->
           [c EXCEPT !.state = event.state,
                     !.recording = recording_of(event.state)]
      [] event.evt = "level" ->
           [c EXCEPT !.lastLevel = event.db]
      [] event.evt = "session" ->
           IF event.action = "start"
           THEN [c EXCEPT !.sessionID = event.id]
           ELSE IF event.action = "end"
                THEN [c EXCEPT !.sessionID = ""]
                ELSE c
      [] OTHER -> c

\* processEvent is called with an event; events: history of the events it was given
Ctl_ProcessEvent(event) ==
    /\ Len(ctl.events) < MaxEvents
    /\ ctl' = [processEvent(ctl, event) EXCEPT !.events = Append(ctl.events, event)]
    /\ UNCHANGED CtlOthers

\* Controller.State / IsRecording / LastLevel / SessionID
State == ctl.state
IsRecording == ctl.recording
LastLevel == ctl.lastLevel
SessionID == ctl.sessionID

NextController == \E event \in TelemetryEvents : Ctl_ProcessEvent(event)

SpecController == Init /\ [][NextController]_vars

\* the positions of the events of a sequence that satisfy a test
Positions(events, Test(_)) == {i \in 1..Len(events) : Test(events[i])}

\* the largest position of a non-empty set
LastPosition(positions) == CHOOSE i \in positions : \A j \in positions : j <= i

IsStatus(e) == e.evt = "status"
IsLevel(e) == e.evt = "level"
IsSessionStartOrEnd(e) == e.evt = "session" /\ e.action \in {"start", "end"}

\* C27: State() is the state of the last status event given to processEvent, "idle"
\* if there was none; IsRecording() holds exactly when that state is "recording";
\* LastLevel() is the db of the last level event; SessionID() is the id of the last
\* session event with action start or end if it was a start, and empty if it was an
\* end or there was none.
C27_ControllerMirrors ==
    LET statuses == Positions(ctl.events, IsStatus)
        levels == Positions(ctl.events, IsLevel)
        sessions == Positions(ctl.events, IsSessionStartOrEnd)
    IN /\ State = IF statuses = {} THEN "idle"
                  ELSE ctl.events[LastPosition(statuses)].state
       /\ IsRecording = (State = "recording")
       /\ LastLevel = IF levels = {} THEN 0 ELSE ctl.events[LastPosition(levels)].db
       /\ SessionID = IF sessions = {} THEN ""
                      ELSE IF ctl.events[LastPosition(sessions)].action = "start"
                           THEN ctl.events[LastPosition(sessions)].id
                           ELSE ""

\* C27 witness: a session started, the status became paused, then a text event came:
\* the getters still show the session and the state paused
C27_Witness ==
    /\ Len(ctl.events) = 3
    /\ ctl.events[1].evt = "session" /\ ctl.events[1].action = "start"
    /\ ctl.events[2] = TelemetryEvent("status", "paused", 0, "", "")
    /\ ctl.events[3].evt = "txt"
    /\ State = "paused" /\ ~IsRecording /\ SessionID = "20240105_143022"

----------------------------------------------------------------------------
(* RingBuffer, one caller: the batch operations, the observers and clear *)

\* the spans given to push(span)
Spans == UNION {[1..n -> Values] : n \in 0..MaxSpan}

\* std::size_t push(std::span<const T> data): for (value : data) { if (!push(value))
\* break; ++pushed; }
push_span_nothing(buf, write, read, data) ==
    [buffer_ |-> buf, write_index_ |-> write, pushed |-> 0]
RECURSIVE push_span(_, _, _, _)
push_span(buf, write, read, data) ==
    IF data = <<>> \/ push_full(next_index(write), read)
    THEN [buffer_ |-> buf, write_index_ |-> write, pushed |-> 0]
    ELSE LET rest == push_span(slot_store(buf, write, Head(data)), next_index(write),
                               read, Tail(data))
         IN [rest EXCEPT !.pushed = @ + 1]

\* std::size_t pop(std::span<T> out): for (slot : out) { if (auto value = pop())
\* { slot = *value; ++popped; } else break; }; values are the slots filled, in order
RECURSIVE pop_span(_, _, _, _)
pop_span(buf, write, read, out_size) ==
    IF out_size = 0 \/ pop_empty(read, write)
    THEN [read_index_ |-> read, values |-> <<>>]
    ELSE LET rest == pop_span(buf, write, next_index(read), out_size - 1)
         IN [rest EXCEPT !.values = <<slot_load(buf, read)>> \o @]

\* bool empty()
empty == read_index_ = write_index_

\* bool full(): ((write + 1) & mask) == read
full == next_index(write_index_) = read_index_

\* std::size_t available(): Capacity - size() - 1
available == Capacity - size - 1

\* the record of a batch call: the span's length, the count returned, the values given
\* and the slots of the span after the call (0 is a slot the call did not write),
\* the elements held and the histories' lengths before the call, and the call made
\* just before it
BatchCall(op, n, count, data, slots) ==
    [op |-> op, ok |-> count > 0, held |-> Held, n |-> n, count |-> count,
     data |-> data, slots |-> slots, pushed_before |-> Len(pushed),
     popped_before |-> Len(popped),
     prev |-> IF last.op = "push_span"
              THEN [op |-> last.op, n |-> last.n, count |-> last.count,
                    data |-> last.data, held |-> last.held]
              ELSE [op |-> last.op]]

\* push(span)
PushSpan(data) ==
    /\ Len(pushed) + Len(data) <= MaxPush
    /\ LET r == push_span(buffer_, write_index_, read_index_, data)
       IN /\ buffer_' = r.buffer_
          /\ write_index_' = r.write_index_
          /\ pushed' = pushed \o SubSeq(data, 1, r.pushed)
          /\ last' = BatchCall("push_span", Len(data), r.pushed, data, <<>>)
    /\ UNCHANGED <<read_index_, prod, cons, popped, nonRingVars>>

\* pop(span) on a span of out_size slots; in this specification popped is the history
\* of the values the consumer took out of the buffer, by pop or by clear
PopSpan(out_size) ==
    /\ LET r == pop_span(buffer_, write_index_, read_index_, out_size)
       IN /\ read_index_' = r.read_index_
          /\ popped' = popped \o r.values
          /\ last' = BatchCall("pop_span", out_size, Len(r.values), <<>>,
                               r.values \o [k \in 1..(out_size - Len(r.values)) |-> 0])
    /\ UNCHANGED <<buffer_, write_index_, prod, cons, pushed, nonRingVars>>

\* clear(): read_index_.store(write_index_.load())
Clear ==
    /\ read_index_' = write_index_
    /\ popped' = popped \o pop_span(buffer_, write_index_, read_index_, Capacity).values
    /\ last' = [op |-> "clear", ok |-> TRUE, held |-> Held]
    /\ UNCHANGED <<buffer_, write_index_, prod, cons, pushed, nonRingVars>>

NextBatch ==
    \/ (\E value \in Values : Push(value))
    \/ Pop
    \/ (\E data \in Spans : PushSpan(data))
    \/ (\E out_size \in 0..MaxSpan : PopSpan(out_size))
    \/ Clear

SpecBatch == Init /\ [][NextBatch]_vars

\* C28: after any sequence of push, pop, batch push, batch pop and clear, size() is
\* (write_index - read_index) mod Capacity and is the number of elements held, it lies
\* in 0..Capacity-1, available() = Capacity - 1 - size(), empty() holds exactly when
\* size() = 0 and full() exactly when size() = Capacity - 1.
C28_IndexInvariant ==
    /\ size = (write_index_ - read_index_) % Capacity
    /\ size = Held
    /\ 0 <= size /\ size <= Capacity - 1
    /\ available = Capacity - 1 - size
    /\ empty <=> size = 0
    /\ full <=> size = Capacity - 1

\* C28 witness: a batch push filled the buffer and was cut short, with the write
\* index wrapped below the read index, after a clear and a batch pop
C28_Witness ==
    /\ last.op = "push_span" /\ last.count < last.n /\ last.count > 0
    /\ full /\ write_index_ < read_index_
    /\ Len(popped) > 0

\* what the batch calls transfer: the first min(n, f) values of a pushed span are in
\* the buffer in order behind the elements held before, and the count is min(n, f);
\* the first min(n, s) slots of a popped span hold the oldest values in order, the
\* other slots are not written, and the count is min(n, s)
PrefixTransfer ==
    /\ last.op = "push_span" =>
          /\ last.count = Min(last.n, Capacity - 1 - last.held)
          /\ size = last.held + last.count
          /\ Len(pushed) = last.pushed_before + last.count
          /\ \A k \in 1..last.count :
                /\ pushed[last.pushed_before + k] = last.data[k]
                /\ buffer_[(write_index_ - last.count + k - 1) % Capacity] = last.data[k]
    /\ last.op = "pop_span" =>
          /\ last.count = Min(last.n, last.held)
          /\ size = last.held - last.count
          /\ \A k \in 1..last.n :
                last.slots[k] = IF k <= last.count
                                THEN pushed[last.popped_before + k] ELSE 0

\* a batch pop of n that follows a batch push of n values, n not above the free slots
RoundTrip ==
    /\ last.op = "pop_span" /\ last.prev.op = "push_span"
    /\ last.n = last.prev.n
    /\ last.prev.n <= Capacity - 1 - last.prev.held

\* C29 as stated: the batch calls transfer a prefix, and a batch push of n <= f values
\* followed by a batch pop of n returns the same values.
C29_BatchAsStated ==
    /\ PrefixTransfer
    /\ RoundTrip => last.slots = last.prev.data

\* C29: the batch calls transfer a prefix, and a batch push of n <= f values on an
\* empty buffer followed by a batch pop of n returns the same values.
C29_BatchTransfer ==
    /\ PrefixTransfer
    /\ (RoundTrip /\ last.prev.held = 0) => last.slots = last.prev.data

\* C29 witness: on an empty buffer whose indices had advanced, a batch push of three
\* values then a batch pop of three gave the values back across the wrap
C29_Witness ==
    /\ RoundTrip /\ last.prev.held = 0 /\ last.n = Capacity - 1
    /\ last.slots = last.prev.data
    /\ last.popped_before > 0
    /\ read_index_ < last.n

\* C29 witness, partial transfer: a batch push longer than the free slots stored a
\* proper prefix and a batch pop longer than the content filled a proper prefix
C29_WitnessPartial ==
    /\ last.op = "pop_span" /\ last.count < last.n /\ last.count > 0
    /\ last.prev.op = "push_span" /\ last.prev.count < last.prev.n
    /\ last.prev.count > 0

\* the labels at which the next step of a thread stores g_state
StateWrites == {"start_state", "stop_state", "pause_set", "resume_set"}

\* C30: every step that stores g_state is taken by a thread that holds
\* g_session_mutex, and g_state does not change while the main thread is between
\* process_audio_frame's state test and the end of its writes.
C30_TransitionsUnderMutex ==
    [][/\ \A t \in Threads :
             (pc[t] \in StateWrites /\ pc'[t] # pc[t]) => g_session_mutex = t
       /\ pc["main"] \in {"f_write", "f_level", "f_text", "f_count"} =>
             g_state' = g_state]_vars

----------------------------------------------------------------------------
(* The session mutex and disk I/O *)

\* the labels at which the next step of a thread works on the disk:
\* create_directories, WavWriter::create and the transcript's open (start_create),
\* the two closes of stop_recording, with the header rewrite (stop_close),
\* WavWriter::write (f_write), the transcript's write and flush (f_text)
DiskIO == {"start_create", "stop_close", "f_write", "f_text"}

\* C31: no thread is about to work on the disk while it holds g_session_mutex.
C31_NoDiskIOUnderMutex ==
    \A t \in Threads : pc[t] \in DiskIO => g_session_mutex # t

----------------------------------------------------------------------------
(* The ready flag and the frames wait_for_data returns *)

\* C32: whenever data_ready_ is false and no callback is in progress, the ring
\* buffer holds fewer than buffer_frames x channels samples.
C32_ReadyFlag ==
    (~data_ready_ /\ cb.pc = "idle") => size < expected_samples

\* C33: every frame wait_for_data returns has the length buffer_frames x channels.
C33_FixedFrameLength ==
    ret.kind = "frame" => ret.len = expected_samples

\* C38: a successful wait_for_data returns at least one sample.
C38_NoEmptyFrame ==
    ret.kind = "frame" => ret.len > 0

----------------------------------------------------------------------------
(* Order of the events of one transition *)

IsSessionEnd(e) == e.evt = "session" /\ e.action = "end"

\* the status event that closes the transition a session event belongs to
ClosingStatus(e) == IF IsSessionStart(e) THEN EvStatus("recording") ELSE EvStatus("idle")

\* the events main emits around device.start(), after the command thread was started
StartupEvents == {EvInfo("Audio device started"), EvError("Failed to start audio device")}

\* C34 as stated: every session-start event is immediately followed in the output
\* by the status 'recording' event and every session-end event by the status
\* 'idle' event, nothing between the two.
C34_ImmediatelyFollowed ==
    \A i \in 1..(Len(out) - 1) :
        (IsSessionStart(out[i]) \/ IsSessionEnd(out[i])) =>
            out[i + 1] = ClosingStatus(out[i])

\* C34: every session-start event is followed by the status 'recording' event and
\* every session-end event by the status 'idle' event, with no level or text
\* event and no event of the command thread between the two: only the one event
\* main emits around device.start() can fall between them.  While the status
\* event is still to come, the thread that emitted the session event holds
\* g_session_mutex and is about to emit it.
C34_EventOrdering ==
    /\ \A i \in 1..(Len(out) - 1) :
          (IsSessionStart(out[i]) \/ IsSessionEnd(out[i])) =>
              \/ out[i + 1] = ClosingStatus(out[i])
              \/ /\ out[i + 1] \in StartupEvents
                 /\ pc["main"] \notin {"boot_start", "boot_info"}
                 /\ i + 2 <= Len(out) => out[i + 2] = ClosingStatus(out[i])
    /\ \A t \in Threads :
          pc[t] \in {"start_emit_status", "stop_reset", "stop_state", "stop_emit_status"} =>
              /\ g_session_mutex = t
              /\ \E i \in {Len(out) - 1, Len(out)} :
                    /\ i >= 1
                    /\ IsSessionStart(out[i]) \/ IsSessionEnd(out[i])
                    /\ i < Len(out) => out[Len(out)] \in StartupEvents

\* C34 witness: a session was started and stopped while frames were processed:
\* level events exist, and both pairs of events are in the output
C34_Witness ==
    /\ \E i \in 1..Len(out) : out[i] = EvLevel
    /\ \E i \in 1..(Len(out) - 1) :
          IsSessionStart(out[i]) /\ out[i + 1] = EvStatus("recording")
    /\ \E i \in 1..(Len(out) - 1) :
          IsSessionEnd(out[i]) /\ out[i + 1] = EvStatus("idle")

\* C34 witness: the start-up event of main fell between the two events of a START
C34_WitnessStartup ==
    \E i \in 1..(Len(out) - 2) :
        /\ IsSessionStart(out[i])
        /\ out[i + 1] = EvInfo("Audio device started")
        /\ out[i + 2] = EvStatus("recording")

----------------------------------------------------------------------------
(* AsyncWriter: termination of close() *)

\* the steps of write_bytes once it was called
AwWriteStep ==
    \/ AW_WriteCheckOpen \/ AW_WriteLock \/ AW_WriteCheckFull
    \/ AW_WriteEmplace \/ AW_WriteNotify \/ AW_WriteRet

\* the steps of close() once it was called
AwCloseStep ==
    \/ AW_CloseExchange \/ AW_CloseStop \/ AW_CloseNotify \/ AW_CloseJoin \/ AW_CloseFile

\* the steps of the writer thread; a wake without a notify is not one it must take
AwThreadStep ==
    \/ (\E queue_empty \in BOOLEAN : T_LoopCheck(queue_empty))
    \/ T_Lock \/ T_Pred \/ T_Block \/ T_Wake \/ T_Take \/ T_Write \/ T_Flush

\* the three threads run; nobody has to call write_bytes or close
AsyncFairness ==
    /\ WF_vars(AwWriteStep)
    /\ WF_vars(AwCloseStep)
    /\ WF_vars(AwThreadStep)

SpecAsyncLive == SpecAsync /\ AsyncFairness

\* C35: once close() has set should_stop_, the writer thread eventually exits, and
\* every close() that was called eventually returns.
C35_CloseTerminates ==
    /\ aw.should_stop_ ~> (aw.thread.pc \in {"exited", "joined"})
    /\ (aw.owner.pc # "idle") ~> (aw.owner.pc = "idle")

----------------------------------------------------------------------------
(* AsyncWriter: what becomes of the accepted chunks *)

\* the chunks put into the queue, in order: those whose call returned true, and the
\* one of a call between its emplace and its return
Enqueued ==
    aw.accepted \o (IF aw.prod.pc \in {"w_notify", "w_ret"} THEN <<aw.prod.calls>> ELSE <<>>)

\* the chunks taken from the queue or still in it, in order
Dequeued ==
    aw.file \o (IF aw.thread.pc = "t_write" THEN <<aw.thread.data>> ELSE <<>>)

\* a close() that closed the file has returned
CloseReturned == aw.file_closes > 0 /\ aw.owner.pc = "idle"

\* nothing is reordered, duplicated or dropped on the way from the queue to the file
OrderKept == Dequeued \o aw.write_queue_ = Enqueued

\* C36: the chunks written and those waiting are the enqueued chunks, in enqueue
\* order; once close() has returned and no write_bytes call is in progress, the
\* queue is empty, every chunk whose write returned true is in the file and
\* bytes_written counts exactly those chunks.
C36_NoAcceptedDataLost ==
    /\ OrderKept
    /\ (CloseReturned /\ aw.prod.pc = "idle") =>
          /\ aw.write_queue_ = <<>>
          /\ aw.file = aw.accepted
          /\ aw.bytes_written_ = Len(aw.accepted)

----------------------------------------------------------------------------
(* Sessions and their ends *)

\* the session-start event at position i has its session-end event, with the same
\* id, somewhere in positions i+1 .. upto
EndedWithin(i, upto) ==
    \E k \in (i + 1)..upto : IsSessionEnd(out[k]) /\ out[k].id = out[i].id

\* C37: each session-start event is followed by a session-end event with the same
\* id before any later session-start event, and before main has emitted its last
\* event and returned.
C37_SessionsEnded ==
    /\ \A i, j \in 1..Len(out) :
          (i < j /\ IsSessionStart(out[i]) /\ IsSessionStart(out[j])) => EndedWithin(i, j - 1)
    /\ pc["main"] = "finished" =>
          \A i \in 1..Len(out) : IsSessionStart(out[i]) => EndedWithin(i, Len(out))

----------------------------------------------------------------------------
(* Commands and their responses *)

\* the command thread has finished with the line it dispatched: handle_command
\* returned, or the process was terminated inside it
HandlerEnded == pc["cmd"] \in {"done", "terminated"}

\* the command thread read a blank line and went back to the loop test
BlankLineStep == pc["cmd"] = "getline" /\ pc'["cmd"] = "read"

\* C39: whenever the command thread has finished with a dispatched line, that line
\* has caused at least one telemetry event; a blank line causes no event and
\* changes no state.
C39_EveryCommandAnswered ==
    /\ [](HandlerEnded => cmd_emitted # <<>>)
    /\ [][BlankLineStep =>
            UNCHANGED <<out, cmd_emitted, g_state, g_session, g_should_exit,
                        g_session_mutex, cmd, stopv, endlog>>]_vars

\* the same for the lines that do not end in create_directories throwing
C39_AnsweredUnlessTerminated ==
    /\ [](pc["cmd"] = "done" => cmd_emitted # <<>>)
    /\ [][BlankLineStep =>
            UNCHANGED <<out, cmd_emitted, g_state, g_session, g_should_exit,
                        g_session_mutex, cmd, stopv, endlog>>]_vars

----------------------------------------------------------------------------
(* The harness and the controller side by side: the controller's listenTelemetry gives
   processEvent the lines of the harness's stdout, in order *)

RefineWords == {"START", "STOP", "PAUSE", "RESUME", "KILL"}

\* generate_session_id: put_time(localtime(now), "%Y%m%d_%H%M%S"), for the seconds
\* the clock of the model can show
SessionIdStrings ==
    <<"20240105_143020", "20240105_143021", "20240105_143022", "20240105_143023">>
generate_session_id(seconds) == SessionIdStrings[seconds + 1]

\* what json.Unmarshal makes of the line the Emitter printed for an event: status
\* lines carry their text under the key "state", text, error and info lines under
\* "body", session lines carry "action" and "id"
Unmarshal(e) ==
    TelemetryEvent(e.evt,
                   IF e.evt = "status" THEN e.body ELSE "",
                   0,
                   e.action,
                   IF e.evt = "session" THEN generate_session_id(e.id) ELSE "")

\* listenTelemetry: scanner.Scan(), json.Unmarshal, c.processEvent(event), for the next
\* line of the harness's output
Ctl_ListenTelemetry ==
    /\ Len(ctl.events) < Len(out)
    /\ LET event == Unmarshal(out[Len(ctl.events) + 1])
       IN ctl' = [processEvent(ctl, event) EXCEPT !.events = Append(ctl.events, event)]
    /\ UNCHANGED CtlOthers

NextRefine ==
    \/ MainStep
    \/ CmdStep \/ StartCreate(FALSE) \/ StartCreateThrows
    \/ ResumeRead \/ ResumeSet \/ ResumeEmit \/ ResumeErr
    \/ (\E t \in Threads : StopStep(t))
    \/ (\E word \in RefineWords : CmdLine(word))
    \/ CmdEof
    \/ Tick
    \/ Ctl_ListenTelemetry

SpecRefine == Init /\ [][NextRefine]_vars

\* the controller has processed every event emitted so far
Synced == Len(ctl.events) = Len(out)

\* no handler and no stop_recording is in progress on either thread
BetweenCommands ==
    /\ pc["cmd"] \in {"unstarted", "read", "getline", "done", "exited", "terminated"}
    /\ pc["main"] \notin {"stop_lock", "stop_check", "stop_duration", "stop_close",
                           "stop_emit_end", "stop_reset", "stop_state", "stop_emit_status"}

\* the controller's view agrees with the harness
ViewAgrees ==
    /\ IsRecording <=> g_state = "Recording"
    /\ SessionID # "" <=> g_session.present
    /\ g_session.present => SessionID = generate_session_id(g_session.id)

\* C40 as stated: whenever the controller has processed every event emitted so far,
\* its view agrees with the harness.
C40_ViewRefinesAlways == Synced => ViewAgrees

\* C40: whenever no command is being handled and the controller has processed every
\* event emitted so far, IsRecording() holds iff g_state is Recording, and
\* SessionID() is non-empty iff the harness holds a session, whose id it then is.
C40_ViewRefines == (Synced /\ BetweenCommands) => ViewAgrees

\* C40 witness: a session was started, paused and started again a second later; the
\* controller has caught up and shows the second session
C40_Witness ==
    /\ Synced /\ BetweenCommands
    /\ g_state = "Recording" /\ IsRecording
    /\ g_session.present /\ g_session.id = 1 /\ SessionID = generate_session_id(1)
    /\ \E i \in 1..Len(ctl.events) : ctl.events[i].id = generate_session_id(0)
    /\ \E i \in 1..Len(ctl.events) : ctl.events[i].state = "paused"

====
